---- MODULE Spec2Model ----
(***************************************************************************)
(* A model of the mueve front end: the lexer of src/src/lexer.rs (a cursor *)
(* over the remaining input, the current location, the bracket-nesting     *)
(* stack and a one-token lookahead buffer) and the operations it exposes.  *)
(* The input text is a sequence of characters, each a string: the          *)
(* character itself where a string can hold it, its code point written     *)
(* U+XXXX otherwise.  Text spans are sub-sequences of it; offsets into a    *)
(* text count UTF-8 bytes, as the offsets of a &str do.                    *)
(***************************************************************************)
EXTENDS Integers, Sequences, FiniteSets, TLC

(***************************************************************************)
(* Bounds of the model.                                                    *)
(***************************************************************************)
\* Longest input over the full alphabet.
MaxLen == 3
\* Longest input made of round and square brackets only.
MaxBracketLen == 6
\* Number of failed operations after which the driver stops calling.
MaxErrors == 2
\* Longest program, in words, over the full vocabulary.
MaxWords == 3
\* Longest program, in words, over the core vocabulary.
MaxCoreWords == 4

(***************************************************************************)
(* Characters.                                                             *)
(***************************************************************************)
\* The character U+0000: what the scan loop reads once the input is
\* exhausted (unwrap_or('\0')), and the same character where a text holds it.
NUL == "U+0000"

\* The characters of two UTF-8 bytes (U+0080 .. U+07FF) the model knows.
TwoByteChars ==
    {"", " ", "ª", "²", "É", "ß", "é",
     "ǅ", "π", "U+0663"}

\* The characters of three UTF-8 bytes (U+0800 .. U+FFFF) the model knows.
ThreeByteChars ==
    {"U+1680", "U+2000", "U+2001", "U+2002", "U+2003", "U+2004", "U+2005",
     "U+2006", "U+2007", "U+2008", "U+2009", "U+200A", "U+2028", "U+2029",
     "U+202F", "U+205F", "U+3000", "U+2167", "U+4E2D"}

\* The characters of four UTF-8 bytes (U+10000 and above) the model knows.
FourByteChars == {"U+1D400"}

\* char::len_utf8: every other character of a text is an ASCII one.
len_utf8(ch) ==
    IF ch \in TwoByteChars THEN 2
    ELSE IF ch \in ThreeByteChars THEN 3
    ELSE IF ch \in FourByteChars THEN 4
    ELSE 1

\* char::is_whitespace: the characters of the Unicode property White_Space
\* (U+000B, U+0085 and U+00A0 stand in the set as themselves).
is_whitespace(ch) ==
    ch \in {"\t", "\n", "", "\f", "\r", " ", "", " ",
            "U+1680", "U+2000", "U+2001", "U+2002", "U+2003", "U+2004",
            "U+2005", "U+2006", "U+2007", "U+2008", "U+2009", "U+200A",
            "U+2028", "U+2029", "U+202F", "U+205F", "U+3000"}

\* char::is_digit(10).
is_digit(ch) == ch \in {"0", "1", "2", "3", "4", "5", "6", "7", "8", "9"}

\* char::is_alphabetic: the ASCII letters, and of the other characters the
\* model knows those of the Unicode property Alphabetic.
is_alphabetic(ch) ==
    ch \in {"a", "b", "c", "d", "e", "f", "g", "h", "i", "j", "k", "l", "m",
            "n", "o", "p", "q", "r", "s", "t", "u", "v", "w", "x", "y", "z",
            "A", "B", "C", "D", "E", "F", "G", "H", "I", "J", "K", "L", "M",
            "N", "O", "P", "Q", "R", "S", "T", "U", "V", "W", "X", "Y", "Z",
            "ª", "É", "ß", "é", "ǅ", "π",
            "U+2167", "U+4E2D", "U+1D400"}

\* char::is_numeric: the ASCII digits, and of the other characters the model
\* knows those of the general categories Nd, Nl and No.
is_numeric(ch) == is_digit(ch) \/ ch \in {"²", "U+0663", "U+2167"}

is_alphanumeric(ch) == is_alphabetic(ch) \/ is_numeric(ch)

\* A variant of is_operator_char that leaves out '>'.
is_operator_char_without_gt(ch) ==
    ch \in {".", "=", "<", "-", "+", "!", "@", ":", "$", "%", "^", "&", "*",
            "/", "?", "~"}

is_operator_char(ch) ==
    ch \in {".", "=", ">", "<", "-", "+", "!", "@", ":", "$", "%", "^", "&",
            "*", "/", "?", "~"}

\* The number of characters of s, after the first k, that make up its next
\* b bytes; -1 where b bytes end inside a character or past the end of s.
RECURSIVE CharsIn(_, _, _)
CharsIn(s, b, k) ==
    IF b = 0 THEN k
    ELSE IF b < 0 \/ k >= Len(s) THEN -1
    ELSE CharsIn(s, b - len_utf8(s[k + 1]), k + 1)

\* str::is_char_boundary: byte offset b is the start of a character of s, or
\* its end.
is_char_boundary(s, b) == CharsIn(s, b, 0) >= 0

\* &s[a..b] of the source, a and b byte offsets: the characters between the
\* two, or Panic where the slice panics (an offset past the end or inside a
\* character, or a > b).
Slice(s, a, b) ==
    IF a <= b /\ is_char_boundary(s, a) /\ is_char_boundary(s, b)
    THEN SubSeq(s, CharsIn(s, a, 0) + 1, CharsIn(s, b, 0))
    ELSE [tag |-> "Panic"]

\* &s[a..] of the source.
SliceFrom(s, a) ==
    IF is_char_boundary(s, a)
    THEN SubSeq(s, CharsIn(s, a, 0) + 1, Len(s))
    ELSE [tag |-> "Panic"]

(***************************************************************************)
(* Decimal parsing: str::parse::<i64>() on an optional '-' and a digit run. *)
(***************************************************************************)
DigitValue(ch) ==
    CASE ch = "0" -> 0 [] ch = "1" -> 1 [] ch = "2" -> 2 [] ch = "3" -> 3
      [] ch = "4" -> 4 [] ch = "5" -> 5 [] ch = "6" -> 6 [] ch = "7" -> 7
      [] ch = "8" -> 8 [] ch = "9" -> 9

RECURSIVE StripZeros(_)
StripZeros(ds) ==
    IF Len(ds) > 1 /\ ds[1] = "0" THEN StripZeros(Tail(ds)) ELSE ds

\* Lexicographic ds <= bound on digit runs of equal length.
RECURSIVE DigitsLeq(_, _)
DigitsLeq(ds, bound) ==
    IF ds = <<>> THEN TRUE
    ELSE IF DigitValue(ds[1]) < DigitValue(bound[1]) THEN TRUE
    ELSE IF DigitValue(ds[1]) > DigitValue(bound[1]) THEN FALSE
    ELSE DigitsLeq(Tail(ds), Tail(bound))

\* The digits of 2^63 - 1 and of 2^63.
I64MaxDigits ==
    <<"9", "2", "2", "3", "3", "7", "2", "0", "3", "6", "8", "5", "4", "7",
      "7", "5", "8", "0", "7">>

I64MinDigits ==
    <<"9", "2", "2", "3", "3", "7", "2", "0", "3", "6", "8", "5", "4", "7",
      "7", "5", "8", "0", "8">>

RECURSIVE Horner(_, _)
Horner(ds, acc) ==
    IF ds = <<>> THEN acc ELSE Horner(Tail(ds), 10 * acc + DigitValue(ds[1]))

\* A variant of parse_i64 that drops the sign.
parse_i64_unsigned(text) ==
    LET ds == StripZeros(IF Len(text) > 0 /\ text[1] = "-"
                         THEN Tail(text) ELSE text)
        fits == \/ Len(ds) < Len(I64MaxDigits)
                \/ Len(ds) = Len(I64MaxDigits) /\ DigitsLeq(ds, I64MaxDigits)
    IN  IF ~fits THEN [ok |-> FALSE, value |-> 0]
        ELSE [ok |-> TRUE, value |-> Horner(ds, 0)]

\* A variant of parse_i64 that takes a literal out of range for 0.
parse_i64_unchecked(text) ==
    LET neg == Len(text) > 0 /\ text[1] = "-"
        ds == StripZeros(IF neg THEN Tail(text) ELSE text)
        bound == IF neg THEN I64MinDigits ELSE I64MaxDigits
        fits == \/ Len(ds) < Len(bound)
                \/ Len(ds) = Len(bound) /\ DigitsLeq(ds, bound)
    IN  IF ~fits THEN [ok |-> TRUE, value |-> 0]
        ELSE [ok |-> TRUE,
              value |-> IF neg THEN 0 - Horner(ds, 0) ELSE Horner(ds, 0)]

\* [ok, value]: ok is FALSE where parse::<i64>() returns Err (out of range).
parse_i64(text) ==
    LET neg == Len(text) > 0 /\ text[1] = "-"
        ds == StripZeros(IF neg THEN Tail(text) ELSE text)
        bound == IF neg THEN I64MinDigits ELSE I64MaxDigits
        fits == \/ Len(ds) < Len(bound)
                \/ Len(ds) = Len(bound) /\ DigitsLeq(ds, bound)
    IN  IF ~fits THEN [ok |-> FALSE, value |-> 0]
        ELSE [ok |-> TRUE,
              value |-> IF neg THEN 0 - Horner(ds, 0) ELSE Horner(ds, 0)]

(***************************************************************************)
(* Locations, lexemes, tokens, the lookahead buffer.                       *)
(***************************************************************************)
Loc(line, col) == [line |-> line, col |-> col]

\* A variant of Signed that makes the literal a floating-point lexeme.
Signed_as_float(n) == [kind |-> "Float", value |-> n]

Signed(n) == [kind |-> "Signed", value |-> n]
Float(value) == [kind |-> "Float", value |-> value]
Identifier(text) == [kind |-> "Identifier", text |-> text]
QuotedString(text) == [kind |-> "QuotedString", text |-> text]
Operator(text) == [kind |-> "Operator", text |-> text]
Semicolon == [kind |-> "Semicolon"]
LParen == [kind |-> "LParen"]
RParen == [kind |-> "RParen"]
LSquare == [kind |-> "LSquare"]
RSquare == [kind |-> "RSquare"]
LCurly == [kind |-> "LCurly"]
RCurly == [kind |-> "RCurly"]
Comma == [kind |-> "Comma"]

Token(location, lexeme) == [location |-> location, lexeme |-> lexeme]

Started == [tag |-> "Started"]
Read(token) == [tag |-> "Read", token |-> token]
EOF == [tag |-> "EOF"]

(***************************************************************************)
(* Results: Ok(value), Err(ParseError), or no return at all.               *)
(***************************************************************************)
Ok(value) == [tag |-> "Ok", value |-> value]
Err(error) == [tag |-> "Err", error |-> error]
\* A panic: assert!, unwrap() on Err, a slice past the end of the text.
Panic == [tag |-> "Panic"]
\* The scan loop of a string with no closing quote: it does not return, it
\* ends by the panic of an overflowing column or not at all.
Unterminated == [tag |-> "Unterminated"]
Unit == [tag |-> "Unit"]

\* ParseError::error(location, "encountered a {bt} but expected to close a
\* {top_bt} from {top_location}").
MismatchError(location, bt, top_bt, top_location) ==
    [kind |-> "mismatch", location |-> location, bt |-> bt,
     top_bt |-> top_bt, top_location |-> top_location]

\* ParseError::error(location, "encountered a {bt} but we're not inside of
\* any nested syntax").
NotNestedError(location, bt) ==
    [kind |-> "not_nested", location |-> location, bt |-> bt]

\* ParseError::error(location, "lexer was not started!").
NotStartedError(location) == [kind |-> "not_started", location |-> location]

\* ParseError::error(location, "hit EOF but expected {expect_lexeme}").
EofError(location, expected) ==
    [kind |-> "eof", location |-> location, expected |-> expected]

\* A variant of unexpected that reports the two lexemes the wrong way round.
unexpected_swapped(token, expected) ==
    [kind |-> "unexpected", location |-> token.location,
     found |-> expected, expected |-> token.lexeme]

\* ParseError::unexpected(token, expected): located at the token, naming the
\* token's lexeme and the expectation.
unexpected(token, expected) ==
    [kind |-> "unexpected", location |-> token.location,
     found |-> token.lexeme, expected |-> expected]

(***************************************************************************)
(* The nesting stack: a sequence of frames, innermost first.               *)
(***************************************************************************)
Nesting(location, bt) == [location |-> location, bt |-> bt]

\* A variant of push_nested_bracket that records every frame as Square.
push_nested_square(location, bt, next) ==
    <<[location |-> location, bt |-> "Square"]>> \o next

\* A variant of push_nested_bracket that forgets the frames beneath.
push_nested_bracket_alone(location, bt, next) == <<Nesting(location, bt)>>

push_nested_bracket(location, bt, next) == <<Nesting(location, bt)>> \o next

\* A variant of pop_nested_bracket that pops without comparing the kinds.
pop_nested_unchecked(nesting, location, bt) ==
    IF nesting # <<>>
    THEN Ok(Tail(nesting))
    ELSE Err(NotNestedError(location, bt))

pop_nested_bracket(nesting, location, bt) ==
    IF nesting # <<>>
    THEN IF bt = nesting[1].bt
         THEN Ok(Tail(nesting))
         ELSE Err(MismatchError(location, bt, nesting[1].bt,
                                nesting[1].location))
    ELSE Err(NotNestedError(location, bt))

(***************************************************************************)
(* The lexer.                                                              *)
(***************************************************************************)
Lexer(contents, location, nesting, state) ==
    [contents |-> contents, location |-> location, nesting |-> nesting,
     state |-> state]

\* A variant of new that starts counting columns at 1.
new_at_column_one(text) == Lexer(text, Loc(1, 1), <<>>, Started)

new(text) == Lexer(text, Loc(1, 0), <<>>, Started)

\* A variant of update_loc that counts a line-feed as one more column.
update_loc_columns_only(location, ch) == Loc(location.line, location.col + 1)

update_loc(location, ch) ==
    IF ch = "\n" THEN Loc(location.line + 1, 0)
    ELSE Loc(location.line, location.col + 1)

\* What an operation yields: the lexer it leaves and the value it returns.
Outcome(lx, res) == [lx |-> lx, res |-> res]

\* The character the iterator yields after pos characters.
CharAt(contents, pos) ==
    IF pos < Len(contents) THEN contents[pos + 1] ELSE NUL

(***************************************************************************)
(* _advance: buffer a one-character punctuation token, pushing or popping  *)
(* a nesting frame for a bracket.  lx.location already counts ch.          *)
(***************************************************************************)
_advance(lx, ch, count, location, lexeme) ==
    LET nest ==
            CASE lexeme = LParen ->
                   Ok(push_nested_bracket(location, "Paren", lx.nesting))
              [] lexeme = RParen ->
                   pop_nested_bracket(lx.nesting, location, "Paren")
              [] lexeme = LSquare ->
                   Ok(<<Nesting(location, "Square")>> \o lx.nesting)
              [] lexeme = RSquare ->
                   pop_nested_bracket(lx.nesting, location, "Square")
              [] lexeme = LCurly ->
                   Ok(<<Nesting(location, "Curly")>> \o lx.nesting)
              [] lexeme = RCurly ->
                   pop_nested_bracket(lx.nesting, location, "Curly")
              [] OTHER -> Ok(lx.nesting)
    IN  IF nest.tag = "Err" THEN Outcome(lx, nest)
        ELSE Outcome(Lexer(SliceFrom(lx.contents, count + len_utf8(ch)),
                           lx.location, nest.value,
                           Read(Token(lx.location, lexeme))),
                     Ok(location))

(***************************************************************************)
(* The whitespace run after a line-feed inside brackets: the inner loop of *)
(* the newline branch.  pos is the offset of the next character the        *)
(* iterator yields, count the inner counter (1 for the line-feed itself).  *)
(***************************************************************************)
RECURSIVE GobbleWhitespace(_, _, _, _)
GobbleWhitespace(contents, pos, count, location) ==
    IF pos < Len(contents) /\ is_whitespace(contents[pos + 1])
    THEN GobbleWhitespace(contents, pos + 1, count + 1,
                          update_loc(location, contents[pos + 1]))
    ELSE [count |-> count, location |-> location]

\* A line-feed read in LS::Start, as the character at index pos, while the
\* nesting stack is non-empty.  The inner counter counts characters and the
\* slice takes it for a byte offset.
NewlineInNesting(lx, pos) ==
    LET g == GobbleWhitespace(lx.contents, pos + 1, 1, lx.location)
    IN  IF is_char_boundary(lx.contents, g.count)
        THEN Outcome(Lexer(SliceFrom(lx.contents, g.count),
                           g.location, lx.nesting,
                           Read(Token(lx.location, Semicolon))),
                     Ok(lx.location))
        ELSE Outcome([lx EXCEPT !.location = g.location], Panic)

\* The return of a lexeme that ended before offset count.
\* A variant of Emit that buffers the token and leaves the input as it was.
Emit_keeping(lx, count, start_location, lexeme) ==
    Outcome(Lexer(lx.contents, lx.location, lx.nesting,
                  Read(Token(start_location, lexeme))),
            Ok(start_location))

Emit(lx, count, start_location, lexeme) ==
    Outcome(Lexer(SliceFrom(lx.contents, count), lx.location,
                  lx.nesting, Read(Token(start_location, lexeme))),
            Ok(start_location))

\* i32::MAX, the last value of Location's `col: i32`.  A scan the end of the
\* input leaves inside a quoted string counts the U+0000 it is given into
\* the column on every turn of the loop: a build that checks arithmetic
\* panics in update_loc when the column stands at this value, and any other
\* build goes round for ever and leaves no lexer.
I32Max == 2147483647

\* lx with ch counted into its location.
Bump(lx, ch) == [lx EXCEPT !.location = update_loc(lx.location, ch)]

(***************************************************************************)
(* The scan loop of advance_mut: ls is the scanner state, pos the number   *)
(* of characters the iterator has yielded, count the number of bytes       *)
(* counted so far, lexeme_start_index the byte offset of the lexeme's      *)
(* first character.                                                        *)
(***************************************************************************)
\* The text of a quoted string whose closing quote ends at byte offset
\* count: lexeme_start[..count - lexeme_start_index + 1], one byte more than
\* the literal.
QuotedText(lx, count, lexeme_start_index, start_location) ==
    IF is_char_boundary(lx.contents, count + 1)
    THEN Emit(lx, count, start_location,
              QuotedString(Slice(lx.contents, lexeme_start_index, count + 1)))
    ELSE Outcome([lx EXCEPT !.contents = SliceFrom(lx.contents, count)],
                 Panic)

RECURSIVE Scan(_, _, _, _, _, _)
Scan(lx, ls, pos, count, lexeme_start_index, start_location) ==
    LET ch == CharAt(lx.contents, pos)
        next == count + len_utf8(ch)
    IN  CASE ls = "Start" ->
               IF ch = "\n" /\ lx.nesting # <<>>
               THEN NewlineInNesting(lx, pos)
               ELSE LET lx1 == Bump(lx, ch)
                        location == lx1.location
                    IN  IF ch = NUL
                        THEN Outcome([lx1 EXCEPT !.state = EOF],
                                     Ok(start_location))
                        ELSE IF is_whitespace(ch)
                        THEN Scan(lx1, "Start", pos + 1, next,
                                  lexeme_start_index, start_location)
                        ELSE IF is_digit(ch)
                        THEN Scan(lx1, "Digits", pos + 1, next, count,
                                  location)
                        ELSE IF ch = "_" \/ is_alphabetic(ch)
                        THEN Scan(lx1, "Identifier", pos + 1, next, count,
                                  location)
                        ELSE IF ch = "-"
                        THEN Scan(lx1, "Minus", pos + 1, next, count,
                                  location)
                        ELSE IF is_operator_char(ch)
                        THEN Scan(lx1, "Operator", pos + 1, next, count,
                                  location)
                        ELSE IF ch = "\""
                        THEN Scan(lx1, "QuotedString", pos + 1, next, count,
                                  location)
                        ELSE IF ch = "("
                        THEN _advance(lx1, ch, count, location, LParen)
                        ELSE IF ch = ")"
                        THEN _advance(lx1, ch, count, location, RParen)
                        ELSE IF ch = "{"
                        THEN _advance(lx1, ch, count, location, LCurly)
                        ELSE IF ch = "}"
                        THEN _advance(lx1, ch, count, location, RCurly)
                        ELSE IF ch = "["
                        THEN _advance(lx1, ch, count, location, LSquare)
                        ELSE IF ch = "]"
                        THEN _advance(lx1, ch, count, location, RSquare)
                        ELSE IF ch = ";"
                        THEN _advance(lx1, ch, count, location, Semicolon)
                        ELSE IF ch = ","
                        THEN _advance(lx1, ch, count, location, Comma)
                        ELSE Outcome(lx1, Panic)
          [] ls = "Identifier" ->
               IF ch = "_" \/ is_alphanumeric(ch)
               THEN Scan(Bump(lx, ch), "Identifier", pos + 1, next,
                         lexeme_start_index, start_location)
               ELSE Emit(lx, count, start_location,
                         Identifier(Slice(lx.contents, lexeme_start_index,
                                          count)))
          [] ls = "Operator" ->
               IF is_operator_char(ch)
               THEN Scan(Bump(lx, ch), "Operator", pos + 1, next,
                         lexeme_start_index, start_location)
               ELSE Emit(lx, count, start_location,
                         Operator(Slice(lx.contents, lexeme_start_index,
                                        count)))
          [] ls = "Minus" ->
               IF is_digit(ch)
               THEN Scan(Bump(lx, ch), "Digits", pos + 1, next,
                         lexeme_start_index, start_location)
               ELSE IF is_operator_char(ch)
               THEN Scan(Bump(lx, ch), "Operator", pos + 1, next,
                         lexeme_start_index, start_location)
               ELSE Emit(lx, count, start_location,
                         Operator(Slice(lx.contents, lexeme_start_index,
                                        count)))
          [] ls = "Digits" ->
               IF is_digit(ch)
               THEN Scan(Bump(lx, ch), "Digits", pos + 1, next,
                         lexeme_start_index, start_location)
               ELSE IF parse_i64(Slice(lx.contents, lexeme_start_index,
                                       count)).ok
               THEN Emit(lx, count, start_location,
                         Signed(parse_i64(Slice(lx.contents,
                                                lexeme_start_index,
                                                count)).value))
               ELSE Outcome([lx EXCEPT !.contents =
                                SliceFrom(lx.contents, count)],
                            Panic)
          [] ls = "QuotedString" ->
               IF ch # "\""
               THEN IF pos >= Len(lx.contents)
                    THEN Outcome([lx EXCEPT !.location.col = I32Max],
                                 Unterminated)
                    ELSE Scan(Bump(lx, ch), "QuotedString", pos + 1, next,
                              lexeme_start_index, start_location)
               ELSE QuotedText(lx, next, lexeme_start_index, start_location)

\* A variant of advance_mut without the early return at EOF.
advance_mut_rescanning(lx) ==
    IF Len(lx.contents) = 0
    THEN Outcome([lx EXCEPT !.state = EOF], Ok(lx.location))
    ELSE Scan(lx, "Start", 0, 0, 0, lx.location)

advance_mut(lx) ==
    IF lx.state = EOF THEN Outcome(lx, Ok(lx.location))
    ELSE IF Len(lx.contents) = 0
    THEN Outcome([lx EXCEPT !.state = EOF], Ok(lx.location))
    ELSE Scan(lx, "Start", 0, 0, 0, lx.location)

\* An operation that did not return Ok.
Failed(o) == o.res.tag # "Ok"

\* The ? operator: the failure o itself, else what Rest makes of o.
Try(o, Rest(_)) == IF Failed(o) THEN o ELSE Rest(o)

\* advance: one advance_mut on the function's own `self`, whose location is
\* dropped.  The outcome holds that `self` as the function leaves it: the
\* grammar rules go on with it, and chomp where the build advances the lexer
\* it borrowed; a caller that gave its lexer away, or a copy of it, by value
\* gets the result alone (AdvanceByValue, chomp in the copy build).
advance(lx) == Try(advance_mut(lx), LAMBDA o : Outcome(o.lx, Ok(Unit)))

(***************************************************************************)
(* State: the lexer under test, and a record of the last call made on it.  *)
(***************************************************************************)
VARIABLES
    input,     \* the text the lexer was built on
    lexer,     \* the Lexer value
    tokens,    \* every token this lexer has buffered so far, in order
    op,        \* the last operation called: [name, arg]
    pre,       \* the lexer as it was when that operation was called
    res,       \* what that operation returned
    errors,    \* how many operations have returned Err
    status,    \* "running"; "panicked" / "hung" once a call did not return;
               \* "moved" once the lexer was given away
    build      \* which lexer chomp advances and parse_match_expr chomps on:
               \* the source names a lexer it cannot move or has moved

vars == <<input, lexer, tokens, op, pre, res, errors, status, build>>

\* parse_match_expr names `lexer` after it has moved it into parse_predicate:
\* a build acts either on that lexer or on the one parse_predicate returned.
Builds == {"lexer", "new_lexer"}

\* The builds of the lexer alone: chomp advances the lexer it borrowed, as in
\* the builds of the parser, or a copy of it.
LexerBuilds == {"new_lexer", "copy"}

(***************************************************************************)
(* The lookahead operations.                                               *)
(***************************************************************************)
None == [tag |-> "None"]
Some(value) == [tag |-> "Some", value |-> value]
Bool(value) == [tag |-> "Bool", value |-> value]

\* peek and peek_matches borrow the lexer immutably: they leave it as it is.
peek(lx) ==
    CASE lx.state.tag = "Started" -> Outcome(lx, None)
      [] lx.state.tag = "Read" -> Outcome(lx, Some(lx.state.token))
      [] lx.state.tag = "EOF" -> Outcome(lx, None)

\* A variant of peek_matches that compares the lexemes' kinds only.
peek_matches_kind_only(lx, expect_lexeme) ==
    Outcome(lx, Bool(/\ lx.state.tag = "Read"
                     /\ lx.state.token.lexeme.kind = expect_lexeme.kind))

peek_matches(lx, expect_lexeme) ==
    CASE lx.state.tag = "Started" -> Outcome(lx, Bool(FALSE))
      [] lx.state.tag = "Read" ->
           Outcome(lx, Bool(lx.state.token.lexeme = expect_lexeme))
      [] lx.state.tag = "EOF" -> Outcome(lx, Bool(FALSE))

\* chomp borrows the lexer and calls advance, which takes a lexer by value
\* (line 154).  A build that keeps advance as lexer.rs declares it advances a
\* copy of the lexer, which is dropped: the caller gets advance's result and
\* its lexer stays as it was.  The builds of the parser, whose rules go on
\* with the lexer advance leaves, advance the borrowed lexer itself.
chomp(lx, expect_lexeme) ==
    CASE lx.state.tag = "Started" ->
           Outcome(lx, Err(NotStartedError(lx.location)))
      [] lx.state.tag = "Read" ->
           IF lx.state.token.lexeme = expect_lexeme
           THEN IF build = "copy"
                THEN Outcome(lx, advance(lx).res)
                ELSE advance(lx)
           ELSE Outcome(lx, Err(unexpected(lx.state.token, expect_lexeme)))
      [] lx.state.tag = "EOF" ->
           Outcome(lx, Err(EofError(lx.location, expect_lexeme)))

RECURSIVE skip_semicolon(_)
skip_semicolon(lx) ==
    IF peek(lx).res.tag = "Some" /\ peek(lx).res.value.lexeme = Semicolon
    THEN Try(advance_mut(lx), LAMBDA o : skip_semicolon(o.lx))
    ELSE Outcome(lx, Ok(Unit))

\* The token outcome o has buffered, if any.
BufferedBy(o) ==
    IF o.res.tag = "Ok" /\ o.lx.state.tag = "Read"
    THEN <<o.lx.state.token>>
    ELSE <<>>

\* The tokens a lexer buffers, in order, on its way from the value `from` to
\* the value `to`: every call moves the lexer by advance_mut alone, so these
\* are the tokens of the advances that lead from the one to the other, or up
\* to the advance that failed.
RECURSIVE BufferedUpTo(_, _)
BufferedAfter(o, to) ==
    IF Failed(o) THEN <<>> ELSE BufferedBy(o) \o BufferedUpTo(o.lx, to)

BufferedUpTo(from, to) ==
    IF from = to \/ from.state = EOF
    THEN <<>>
    ELSE BufferedAfter(advance_mut(from), to)

(***************************************************************************)
(* The inputs the model lexes.                                             *)
(***************************************************************************)
Alphabet ==
    {"a", "1", "-", "=", ">", "(", ")", ";", ",", " ", "\n", "\""}

BracketAlphabet == {"(", ")", "[", "]"}

SeqsUpTo(S, n) == UNION {[1..k -> S] : k \in 0..n}

\* The inputs the specification names, the one-character punctuation inputs,
\* curly brackets, a character no rule of the scanner accepts, and texts
\* with U+0000 and with characters outside ASCII.
Scenarios ==
    {<<"(", "[", "{", "}", "]", ")">>,
     <<"(", "(", "(", "]", ")", ")", ")">>,
     <<"(", "a", "\n", "b", ")">>,
     <<"a", "\n", "b">>,
     <<"-", "1", " ", "=", ">", "a">>,
     <<"{">>, <<"}">>, <<"[">>, <<"]">>,
     <<"{", "}">>, <<"{", "]">>, <<"[", "}">>, <<"{", "\n", "}">>,
     <<"a", "#">>,
     <<"4", "2">>, <<"-", "4", "2">>, <<"-", "0", "7">>,
     <<"1", "0", "9", "a">>, <<"a", "-", "1">>,
     <<"\"", "a", "\"", " ", "b">>, <<"\"", "a", " ", "b", "\"">>,
     <<"2", "1", "4", "7", "4", "8", "3", "6", "4", "7">>,
     <<"-", "2", "1", "4", "7", "4", "8", "3", "6", "4", "7", " ", "a">>,
     <<"0", "0", "0", "0", "0", "0", "0", "0", "0", "0", "0", "0", "0", "0",
       "0", "0", "0", "0", "0", "0", "0", "4", "2">>,
     I64MinDigits,
     <<"-">> \o SubSeq(I64MinDigits, 1, 18) \o <<"9">>,
     <<"1">> \o I64MaxDigits \o <<" ", "a">>,
     <<"1", ".", "5">>,
     <<NUL>>, <<"a", NUL, "b">>, <<"\"", NUL, "\"", " ">>,
     <<"\f", "a">>, <<"", "a">>, <<" ", "a">>, <<"U+2003", "a">>,
     <<"é">>, <<"a", "é", " ", "b">>, <<"a", "²">>, <<"U+4E2D", "U+0663">>,
     <<"\"", "a", "\"", "é">>, <<"\"", "é", "\"", " ">>,
     <<"(", " ", "\n", "a", ")">>, <<"(", "\n", "U+2003", "a", ")">>,
     <<"(", "\n", "\f", "a", ")">>,
     <<"é", "(", ")">>, <<"é", "=", ">", "1">>,
     <<"\"", "a", "\"", "b">>, <<"(", "a", " ", "a", " ", "\n", ")">>}

Inputs ==
    SeqsUpTo(Alphabet, MaxLen) \cup SeqsUpTo(BracketAlphabet, MaxBracketLen)
        \cup Scenarios

\* The lexemes a caller expects in chomp and peek_matches.
Expectations == {Identifier(<<"a">>), LParen}

(***************************************************************************)
(* The calls the driver makes.                                             *)
(***************************************************************************)
\* The grammar rules the parser driver calls.
Rules ==
    {"parse_decl", "parse_predicate", "parse_callsite_term", "parse_callsite",
     "parse_many"}

Init ==
    /\ input \in Inputs
    /\ lexer = new(input)
    /\ tokens = <<>>
    /\ op = [name |-> "new"]
    /\ pre = new(input)
    /\ res = Unit
    /\ errors = 0
    /\ status = "running"
    /\ build \in LexerBuilds

\* The driver keeps calling while every call returned and few have failed;
\* a grammar rule that fails has consumed the lexer it was given.
Callable ==
    /\ status = "running"
    /\ errors < MaxErrors
    /\ ~(op.name \in Rules /\ res.tag = "Err")

\* The effect of a call that yielded outcome o.
Apply(call, o) ==
    /\ op' = call
    /\ pre' = lexer
    /\ res' = o.res
    /\ lexer' = o.lx
    /\ tokens' = IF call.name = "advance_mut"
                 THEN tokens \o BufferedBy(o)
                 ELSE tokens \o BufferedUpTo(lexer, o.lx)
    /\ errors' = IF o.res.tag = "Err" THEN errors + 1 ELSE errors
    /\ status' \in CASE o.res.tag = "Panic" -> {"panicked"}
                     [] o.res.tag = "Unterminated" -> {"panicked", "hung"}
                     [] OTHER -> {"running"}
    /\ UNCHANGED <<input, build>>

Advance ==
    /\ Callable
    /\ Apply([name |-> "advance_mut"], advance_mut(lexer))

Peek ==
    /\ Callable
    /\ Apply([name |-> "peek"], peek(lexer))

PeekMatches ==
    /\ Callable
    /\ \E l \in Expectations :
          Apply([name |-> "peek_matches", arg |-> l], peek_matches(lexer, l))

Chomp ==
    /\ Callable
    /\ \E l \in Expectations :
          Apply([name |-> "chomp", arg |-> l], chomp(lexer, l))

\* The effect of a call that took the lexer by value and yielded outcome o:
\* the caller has the result and no lexer to call again; the variable keeps
\* the value that was moved out of it.
Give(call, o) ==
    /\ op' = call
    /\ pre' = lexer
    /\ res' = o.res
    /\ errors' = IF o.res.tag = "Err" THEN errors + 1 ELSE errors
    /\ status' \in CASE o.res.tag = "Panic" -> {"panicked"}
                     [] o.res.tag = "Unterminated" -> {"panicked", "hung"}
                     [] OTHER -> {"moved"}
    /\ UNCHANGED <<input, lexer, tokens, build>>

SkipSemicolon ==
    /\ Callable
    /\ Apply([name |-> "skip_semicolon"], skip_semicolon(lexer))

\* A call of advance, which takes the lexer by value: the lexer advanced is
\* dropped when the call returns.
AdvanceByValue ==
    /\ Callable
    /\ Give([name |-> "advance"], advance(lexer))

Next ==
    \/ Advance
    \/ Peek
    \/ PeekMatches
    \/ Chomp
    \/ SkipSemicolon
    \/ AdvanceByValue

Spec == Init /\ [][Next]_vars

(***************************************************************************)
(* The syntax tree: identifiers, predicates, expressions, declarations.    *)
(***************************************************************************)
Identifier_new(name, location) == [name |-> name, location |-> location]

Irrefutable(id) == [node |-> "Irrefutable", id |-> id]
Integer(location, value) ==
    [node |-> "Integer", location |-> location, value |-> value]
String(location, value) ==
    [node |-> "String", location |-> location, value |-> value]
Ctor(ctor_id, dims) == [node |-> "Ctor", ctor_id |-> ctor_id, dims |-> dims]
Tuple(location, dims) ==
    [node |-> "Tuple", location |-> location, dims |-> dims]

Let(location, binding, value, body) ==
    [node |-> "Let", location |-> location, binding |-> binding,
     value |-> value, body |-> body]
LiteralInteger(location, value) ==
    [node |-> "LiteralInteger", location |-> location, value |-> value]
LiteralString(location, value) ==
    [node |-> "LiteralString", location |-> location, value |-> value]
LiteralFloat(location, value) ==
    [node |-> "LiteralFloat", location |-> location, value |-> value]
Symbol(id) == [node |-> "Symbol", id |-> id]
Callsite(function, arguments) ==
    [node |-> "Callsite", function |-> function, arguments |-> arguments]

Decl(id, predicates, body) ==
    [node |-> "Decl", id |-> id, predicates |-> predicates, body |-> body]

\* ParseError::error(location, "missing token where a predicate was
\* expected?").
MissingPredicateError(location) ==
    [kind |-> "missing_predicate", location |-> location]

\* ParseError::error(location, "expected an identifier here").
ExpectedIdentifierError(location) ==
    [kind |-> "expected_identifier", location |-> location]

\* ParseError::error(location, "missing function callsite expression").
MissingCallsiteError(location) ==
    [kind |-> "missing_callsite", location |-> location]

\* ParseError::not_impl(location): "parsing this is not implemented".
not_impl(location) == [kind |-> "not_impl", location |-> location]

(***************************************************************************)
(* The parser.  A rule takes the lexer by value and returns               *)
(* Ok((value, lexer)), modelled as Outcome(lexer, Ok(value)), or the first *)
(* error one of its steps raised: every `?` is a test of Failed.           *)
(***************************************************************************)
\* Ok((value, lexer.advance()?)).
AdvanceWith(lx, value) ==
    Try(advance(lx), LAMBDA a : Outcome(a.lx, Ok(value)))

\* match value { ... }: what the arms Arms make of the value matched.
Match(value, Arms(_)) == Arms(value)

\* A variant of is_uppercase that takes no letter for a capital.
is_uppercase_never(ch) == FALSE

\* char::is_uppercase: the ASCII capitals, and of the other characters the
\* model knows those of the Unicode property Uppercase.
is_uppercase(ch) ==
    ch \in {"A", "B", "C", "D", "E", "F", "G", "H", "I", "J", "K", "L", "M",
            "N", "O", "P", "Q", "R", "S", "T", "U", "V", "W", "X", "Y", "Z",
            "É", "U+2167", "U+1D400"}

\* A variant of is_keyword that takes no name for a keyword.
is_keyword_never(name) == FALSE

is_keyword(name) ==
    name \in {<<"i", "f">>, <<"t", "h", "e", "n">>, <<"e", "l", "s", "e">>,
              <<"d", "o">>, <<"l", "e", "t">>, <<"i", "n">>}

\* A variant of maybe_id that consumes the keyword it refuses.
maybe_id_consuming(lx) ==
    Match(peek(lx).res, LAMBDA p :
        IF p = None THEN AdvanceWith(lx, None)
        ELSE IF p.value.lexeme.kind = "Identifier"
        THEN IF is_keyword(p.value.lexeme.text)
             THEN AdvanceWith(lx, None)
             ELSE AdvanceWith(lx,
                              Some(Identifier_new(p.value.lexeme.text,
                                                  p.value.location)))
        ELSE Outcome(lx, Ok(None)))

maybe_id(lx) ==
    Match(peek(lx).res, LAMBDA p :
        IF p = None THEN AdvanceWith(lx, None)
        ELSE IF p.value.lexeme.kind = "Identifier"
        THEN IF is_keyword(p.value.lexeme.text)
             THEN Outcome(lx, Ok(None))
             ELSE AdvanceWith(lx,
                              Some(Identifier_new(p.value.lexeme.text,
                                                  p.value.location)))
        ELSE Outcome(lx, Ok(None)))

\* One rule calling another, and parser(lexer) in parse_many: the rules are
\* mutually recursive, and every such call goes through this operator.
RECURSIVE Call(_, _)
RECURSIVE parse_predicates_loop(_, _)
RECURSIVE parse_tuple_predicate_loop(_, _, _)
RECURSIVE parse_many_loop(_, _, _)

\* The loop of parse_tuple_predicate, predicates the vector built so far.
parse_tuple_predicate_loop(location, lx, predicates) ==
    Try(Call("parse_predicate", lx), LAMBDA r :
        IF r.res.value # None
        THEN IF peek_matches(r.lx, Comma).res.value
             THEN Try(advance(r.lx), LAMBDA a :
                      parse_tuple_predicate_loop(
                          location, a.lx,
                          Append(predicates, r.res.value.value)))
             ELSE Try(chomp(r.lx, RParen), LAMBDA c :
                      IF Len(predicates) = 0
                      THEN Outcome(c.lx, Ok(Some(r.res.value.value)))
                      ELSE Outcome(c.lx,
                                   Ok(Some(Tuple(location,
                                                 Append(predicates,
                                                        r.res.value.value))))))
        ELSE Try(chomp(r.lx, RParen), LAMBDA c :
                 Outcome(c.lx, Ok(Some(Tuple(location, predicates))))))

\* A variant of parse_tuple_predicate that builds a Tuple of nothing.
parse_tuple_predicate_empty(location, lx) ==
    Try(parse_tuple_predicate_loop(location, lx, <<>>), LAMBDA r :
        Outcome(r.lx, Ok(Some(Tuple(location, <<>>)))))

parse_tuple_predicate(location, lx) ==
    parse_tuple_predicate_loop(location, lx, <<>>)

\* The loop of parse_predicates, predicates the vector built so far.
parse_predicates_loop(lx, predicates) ==
    Try(Call("parse_predicate", lx), LAMBDA r :
        IF r.res.value = None THEN Outcome(r.lx, Ok(predicates))
        ELSE parse_predicates_loop(r.lx,
                                   Append(predicates, r.res.value.value)))

\* A variant of parse_predicates that reads no predicate.
parse_predicates_none(lx) == Outcome(lx, Ok(<<>>))

parse_predicates(lx) == parse_predicates_loop(lx, <<>>)

parse_predicate(lx) ==
    Match(peek(lx).res, LAMBDA p :
        IF p = None
        THEN Outcome(lx, Err(MissingPredicateError(lx.location)))
        ELSE LET token == p.value
                 lexeme == token.lexeme
             IN  CASE lexeme.kind = "Signed" ->
                        AdvanceWith(lx,
                                    Some(Integer(token.location, lexeme.value)))
                   [] lexeme.kind = "QuotedString" ->
                        AdvanceWith(lx,
                                    Some(String(token.location, lexeme.text)))
                   [] lexeme.kind = "Identifier" ->
                        IF is_uppercase(lexeme.text[1])
                        THEN Try(advance(lx), LAMBDA a :
                             Try(Call("parse_predicates", a.lx), LAMBDA ps :
                                 Outcome(ps.lx,
                                         Ok(Some(Ctor(
                                             Identifier_new(lexeme.text,
                                                            token.location),
                                             ps.res.value))))))
                        ELSE AdvanceWith(lx,
                                         Some(Irrefutable(Identifier_new(
                                             lexeme.text, lx.location))))
                   [] lexeme.kind = "LParen" ->
                        Try(advance(lx), LAMBDA a :
                            parse_tuple_predicate(token.location, a.lx))
                   [] OTHER -> Outcome(lx, Ok(None)))

parse_identifier(lx) ==
    Match(peek(lx).res, LAMBDA p :
        IF p # None /\ p.value.lexeme.kind = "Identifier"
        THEN AdvanceWith(lx,
                         Identifier_new(p.value.lexeme.text, p.value.location))
        ELSE Outcome(lx, Err(ExpectedIdentifierError(lx.location))))

\* A variant of parse_match_expr that returns a Match of the subject read.
parse_match_expr_building(_location, lx) ==
    Try(Call("parse_callsite", lx), LAMBDA s :
    Try(skip_semicolon(s.lx), LAMBDA k :
    Try(Call("parse_predicate", k.lx), LAMBDA r :
        Outcome(r.lx, Ok(Some([node |-> "Match", location |-> _location,
                               subject |-> s.res.value,
                               pattern_exprs |-> <<>>]))))))

\* parse_match_expr breaks out of its loop in the first iteration, and
\* returns None whatever it has read.
parse_match_expr(_location, lx) ==
    Try(Call("parse_callsite", lx), LAMBDA s :
    Try(skip_semicolon(s.lx), LAMBDA k :
    Try(Call("parse_predicate", k.lx), LAMBDA r :
        IF r.res.value # None
        THEN Try(chomp(IF build = "lexer" THEN k.lx ELSE r.lx,
                       Operator(<<"=", ">">>)),
                 LAMBDA c : Outcome(c.lx, Ok(None)))
        ELSE Outcome(r.lx, Ok(None)))))

parse_let_expr(location, lx) ==
    Try(parse_identifier(lx), LAMBDA i :
    Try(chomp(i.lx, Operator(<<"=">>)), LAMBDA e :
    Try(Call("parse_callsite", e.lx), LAMBDA v :
    Try(chomp(v.lx, Identifier(<<"i", "n">>)), LAMBDA n :
    Try(Call("parse_callsite", n.lx), LAMBDA b :
        Outcome(b.lx,
                Ok(Some(Let(location, i.res.value, v.res.value,
                            b.res.value)))))))))

parse_callsite_term(lx) ==
    Match(peek(lx).res, LAMBDA p :
        IF p = None THEN AdvanceWith(lx, None)
        ELSE LET location == p.value.location
                 lexeme == p.value.lexeme
             IN  CASE lexeme.kind = "Identifier" ->
                        IF lexeme.text = <<"l", "e", "t">>
                        THEN Try(advance(lx), LAMBDA a :
                                 parse_let_expr(lx.location, a.lx))
                        ELSE IF lexeme.text = <<"m", "a", "t", "c", "h">>
                        THEN Try(advance(lx), LAMBDA a :
                                 parse_match_expr(lx.location, a.lx))
                        ELSE IF is_keyword(lexeme.text)
                        THEN Outcome(lx, Ok(None))
                        ELSE AdvanceWith(lx,
                                         Some(Symbol(Identifier_new(
                                             lexeme.text, location))))
                   [] lexeme = Semicolon -> AdvanceWith(lx, None)
                   [] lexeme = Operator(<<"=">>) -> Outcome(lx, Ok(None))
                   [] lexeme = LParen ->
                        Try(advance(lx), LAMBDA a :
                        Try(Call("parse_callsite", a.lx), LAMBDA e :
                        Try(chomp(e.lx, RParen), LAMBDA c :
                            Outcome(c.lx, Ok(Some(e.res.value))))))
                   [] lexeme = RParen -> Outcome(lx, Ok(None))
                   [] lexeme.kind = "Operator" /\ lexeme.text # <<"=">> ->
                        AdvanceWith(lx,
                                    Some(Symbol(Identifier_new(lexeme.text,
                                                               location))))
                   [] lexeme.kind = "QuotedString" ->
                        AdvanceWith(lx,
                                    Some(LiteralString(location, lexeme.text)))
                   [] lexeme.kind = "Signed" ->
                        AdvanceWith(lx,
                                    Some(LiteralInteger(location,
                                                        lexeme.value)))
                   [] lexeme.kind = "Float" ->
                        AdvanceWith(lx,
                                    Some(LiteralFloat(location,
                                                      lexeme.value)))
                   [] OTHER -> Outcome(lx, Err(not_impl(location))))

\* The loop of parse_many, objects the vector built so far.
parse_many_loop(parser, lx, objects) ==
    Try(Call(parser, lx), LAMBDA r :
        IF r.res.value # None
        THEN parse_many_loop(parser, r.lx, Append(objects, r.res.value.value))
        ELSE Outcome(r.lx, Ok(objects)))

\* A variant of parse_many that stops after the first object.
parse_many_first(parser, lx) ==
    Try(Call(parser, lx), LAMBDA r :
        IF r.res.value = None THEN Outcome(r.lx, Ok(<<>>))
        ELSE Outcome(r.lx, Ok(<<r.res.value.value>>)))

\* A variant of parse_many that answers a failure with what it has.
parse_many_forgiving(parser, lx) ==
    LET r == parse_many_loop(parser, lx, <<>>)
    IN  IF Failed(r) THEN Outcome(r.lx, Ok(<<>>)) ELSE r

parse_many(parser, lx) == parse_many_loop(parser, lx, <<>>)

\* A variant of parse_callsite that wraps a lone term in a Callsite.
parse_callsite_wrapping(lx) ==
    Try(skip_semicolon(lx), LAMBDA k :
    Try(Call("parse_callsite_term", k.lx), LAMBDA t :
        IF t.res.value = None
        THEN Outcome(t.lx, Err(MissingCallsiteError(t.lx.location)))
        ELSE Try(parse_many("parse_callsite_term", t.lx), LAMBDA m :
                 Outcome(m.lx, Ok(Callsite(t.res.value.value, m.res.value))))))

parse_callsite(lx) ==
    Try(skip_semicolon(lx), LAMBDA k :
    Try(Call("parse_callsite_term", k.lx), LAMBDA t :
        IF t.res.value = None
        THEN Outcome(t.lx, Err(MissingCallsiteError(t.lx.location)))
        ELSE Try(parse_many("parse_callsite_term", t.lx), LAMBDA m :
                 IF Len(m.res.value) = 0
                 THEN Outcome(m.lx, Ok(t.res.value.value))
                 ELSE Outcome(m.lx,
                              Ok(Callsite(t.res.value.value, m.res.value))))))

parse_decl(lx) ==
    Try(maybe_id(lx), LAMBDA i :
        IF i.res.value = None THEN Outcome(i.lx, Ok(None))
        ELSE Try(Call("parse_predicates", i.lx), LAMBDA ps :
             Try(chomp(ps.lx, Operator(<<"=">>)), LAMBDA c :
             Try(Call("parse_callsite", c.lx), LAMBDA e :
                 Outcome(e.lx,
                         Ok(Some(Decl(i.res.value.value, ps.res.value,
                                      e.res.value))))))))

Call(parser, lx) ==
    CASE parser = "parse_decl" -> parse_decl(lx)
      [] parser = "parse_predicate" -> parse_predicate(lx)
      [] parser = "parse_predicates" -> parse_predicates(lx)
      [] parser = "parse_callsite_term" -> parse_callsite_term(lx)
      [] parser = "parse_callsite" -> parse_callsite(lx)

(***************************************************************************)
(* The programs the model parses: every sequence of at most MaxWords words *)
(* of Words, and the programs of ParserScenarios, each word followed by a  *)
(* space.                                                                  *)
(***************************************************************************)
Words ==
    {<<"f">>, <<"x">>, <<"=">>, <<"1">>, <<"(">>, <<")">>, <<",">>, <<";">>,
     <<"l", "e", "t">>, <<"i", "n">>, <<"m", "a", "t", "c", "h">>, <<"A">>}

CoreWords == {<<"f">>, <<"x">>, <<"=">>, <<";">>, <<"(">>, <<")">>}

RECURSIVE Join(_)
Join(ws) == IF ws = <<>> THEN <<>> ELSE ws[1] \o <<" ">> \o Join(Tail(ws))

ParserScenarios ==
    {<<<<"f">>, <<"x">>, <<"=">>, <<"x">>>>,
     <<<<"i", "f">>, <<"=">>, <<"x">>>>,
     <<<<"t", "h", "e", "n">>, <<"=">>, <<"x">>>>,
     <<<<"e", "l", "s", "e">>, <<"=">>, <<"x">>>>,
     <<<<"d", "o">>, <<"=">>, <<"x">>>>,
     <<<<"f">>, <<"=">>, <<"x">>, <<"i", "f">>>>,
     <<<<"l", "e", "t">>, <<"x">>, <<"=">>, <<"f">>, <<"1">>, <<"i", "n">>,
       <<"f">>, <<"x">>>>,
     <<<<"l", "e", "t">>, <<"x">>, <<"=">>, <<"1">>, <<";">>, <<"i", "n">>,
       <<"x">>>>,
     <<<<"l", "e", "t">>, <<"x">>, <<"=">>, <<"1">>, <<"x">>>>,
     <<<<"l", "e", "t">>, <<"i", "n">>, <<"=">>, <<"1">>, <<"i", "n">>,
       <<"1">>>>,
     <<<<"f">>, <<"(">>, <<"x">>, <<",">>, <<"1">>, <<")">>, <<"=">>,
       <<"x">>>>,
     <<<<"(">>, <<"x">>, <<",">>, <<"1">>, <<",">>, <<"A">>, <<"x">>, <<")">>>>,
     <<<<"(">>, <<"x">>, <<",">>, <<"(">>, <<")">>, <<",">>, <<")">>>>,
     <<<<"(">>, <<"(">>, <<"x">>, <<")">>, <<")">>>>,
     <<<<"A">>, <<"A">>, <<"x">>, <<"=">>>>,
     <<<<"É">>, <<"x">>, <<"=">>, <<"x">>>>,
     <<<<"é">>, <<"x">>, <<"=">>, <<"x">>>>,
     <<<<"f">>, <<"=">>, <<"1", ".", "5">>>>,
     <<<<"A">>, <<"x">>, <<"1">>, <<"(">>, <<"x">>, <<")">>, <<"=">>, <<"x">>>>,
     <<<<"f">>, <<"=">>, <<"x">>, <<";">>, <<"f">>, <<"x">>, <<"=">>,
       <<"1">>>>,
     <<<<"f">>, <<"=">>, <<"x">>, <<";">>, <<"f">>, <<"x">>, <<";">>,
       <<"f">>, <<"=">>, <<"1">>>>,
     <<<<"f">>, <<"=">>, <<"f">>, <<"x">>, <<"1">>, <<";">>, <<"x">>, <<"=">>,
       <<"[">>>>,
     <<<<"m", "a", "t", "c", "h">>, <<"f">>, <<";">>, <<"1">>, <<"=", ">">>,
       <<"x">>>>,
     <<<<"g">>, <<"=">>, <<"m", "a", "t", "c", "h">>, <<"f">>, <<";">>,
       <<"x">>, <<"=", ">">>, <<"1">>>>,
     <<<<"g">>, <<"=">>, <<"l", "e", "t">>, <<"x">>, <<"=">>, <<"1">>,
       <<"i", "n">>, <<"x">>>>}

ParserInputs ==
    {Join(ws) : ws \in SeqsUpTo(Words, MaxWords)
                       \cup SeqsUpTo(CoreWords, MaxCoreWords)
                       \cup ParserScenarios}

\* text holds the word match.
HasMatch(text) ==
    \E i \in 1..Len(text) - 4 :
        SubSeq(text, i, i + 4) = <<"m", "a", "t", "c", "h">>

ParserInit ==
    /\ input \in ParserInputs
    /\ lexer = new(input)
    /\ tokens = <<>>
    /\ op = [name |-> "new"]
    /\ pre = new(input)
    /\ res = Unit
    /\ errors = 0
    /\ status = "running"
    /\ build \in IF HasMatch(input) THEN Builds ELSE {"new_lexer"}

\* A rule is called on a lexer that has only been advanced so far.
Parsable == Callable /\ op.name \in {"new", "advance_mut"}

ParseDecl ==
    /\ Parsable
    /\ Apply([name |-> "parse_decl"], Call("parse_decl", lexer))

ParsePredicate ==
    /\ Parsable
    /\ Apply([name |-> "parse_predicate"], Call("parse_predicate", lexer))

ParseCallsiteTerm ==
    /\ Parsable
    /\ Apply([name |-> "parse_callsite_term"], Call("parse_callsite_term", lexer))

ParseCallsite ==
    /\ Parsable
    /\ Apply([name |-> "parse_callsite"], Call("parse_callsite", lexer))

ParseMany ==
    /\ Parsable
    /\ \E parser \in {"parse_decl", "parse_callsite_term"} :
          Apply([name |-> "parse_many", arg |-> parser],
                parse_many(parser, lexer))

ParserNext ==
    \/ Advance
    \/ ParseDecl
    \/ ParsePredicate
    \/ ParseCallsiteTerm
    \/ ParseCallsite
    \/ ParseMany

ParserSpec == ParserInit /\ [][ParserNext]_vars

(***************************************************************************)
(* Vocabulary of the properties.                                           *)
(***************************************************************************)
OperatorChars ==
    {".", "=", ">", "<", "-", "+", "!", "@", ":", "$", "%", "^", "&", "*",
     "/", "?", "~"}

\* What stands for the next character where the text has none left.
Nothing == "nothing"

Blanks ==
    {" ", "\t", "\r", "\n", "", "\f", "", " ", "U+1680",
     "U+2000", "U+2001", "U+2002", "U+2003", "U+2004", "U+2005", "U+2006",
     "U+2007", "U+2008", "U+2009", "U+200A", "U+2028", "U+2029", "U+202F",
     "U+205F", "U+3000"}

Openers == {"(", "[", "{"}
Closers == {")", "]", "}"}

KindOf(ch) ==
    CASE ch \in {"(", ")"} -> "Paren"
      [] ch \in {"[", "]"} -> "Square"
      [] ch \in {"{", "}"} -> "Curly"

LexemeOf(ch) ==
    CASE ch = "(" -> LParen [] ch = ")" -> RParen
      [] ch = "[" -> LSquare [] ch = "]" -> RSquare
      [] ch = "{" -> LCurly [] ch = "}" -> RCurly
      [] ch = ";" -> Semicolon [] ch = "," -> Comma

\* The first character of text that is not blank, or Nothing.
RECURSIVE FirstNonBlank(_)
FirstNonBlank(text) ==
    IF text = <<>> THEN Nothing
    ELSE IF text[1] \in Blanks THEN FirstNonBlank(Tail(text))
    ELSE text[1]

\* The character a scan of text stops skipping at: the first line-feed when
\* nested is TRUE, else the first non-blank character, or Nothing.
RECURSIVE Significant(_, _)
Significant(text, nested) ==
    IF text = <<>> THEN Nothing
    ELSE IF text[1] = "\n" /\ nested THEN "\n"
    ELSE IF text[1] \in Blanks THEN Significant(Tail(text), nested)
    ELSE text[1]

\* The last call was an advance that found the lexer not yet at EOF.
Scanned == op.name = "advance_mut" /\ pre.state # EOF

\* The character the last advance stopped skipping at.
ScannedChar == Significant(pre.contents, pre.nesting # <<>>)

\* The last call buffered a new token in the lexer.
Buffered ==
    /\ op.name \in {"advance_mut", "chomp"}
    /\ res.tag = "Ok"
    /\ lexer.state.tag = "Read"
    /\ lexer # pre

\* The stack of opener kinds left by reading text from stack, or <<"bad">>
\* once a closer does not match.
RECURSIVE Balance(_, _)
Balance(text, stack) ==
    IF text = <<>> THEN stack
    ELSE IF text[1] \in Openers
    THEN Balance(Tail(text), <<KindOf(text[1])>> \o stack)
    ELSE IF stack # <<>> /\ stack[1] = KindOf(text[1])
    THEN Balance(Tail(text), Tail(stack))
    ELSE <<"bad">>

\* text is made of brackets only, and they are well nested.
WellNested(text) ==
    /\ \A i \in 1..Len(text) : text[i] \in Openers \cup Closers
    /\ Balance(text, <<>>) = <<>>

(***************************************************************************)
(* C1: a line-feed scanned while no bracket is open, with tokens before    *)
(* and after it, is buffered as a Semicolon token.                         *)
(***************************************************************************)
C1_TopLevelNewlineIsSemicolon ==
    (Scanned /\ pre.nesting = <<>> /\ pre.state.tag = "Read"
        /\ Significant(pre.contents, TRUE) = "\n"
        /\ FirstNonBlank(pre.contents) \notin {Nothing, NUL})
    => /\ res.tag = "Ok"
       /\ lexer.state.tag = "Read"
       /\ lexer.state.token.lexeme = Semicolon

(***************************************************************************)
(* C2: a line-feed scanned while a bracket is open produces no token: the  *)
(* token buffered is the lexeme of the next non-blank character, so it is  *)
(* a Semicolon only if that character is ';'.                              *)
(***************************************************************************)
C2_NestedNewlineIsSkipped ==
    (Scanned /\ pre.nesting # <<>> /\ ScannedChar = "\n" /\ Buffered
        /\ FirstNonBlank(pre.contents) \notin {Nothing, NUL})
    => (lexer.state.token.lexeme = Semicolon
          => FirstNonBlank(pre.contents) = ";")

(***************************************************************************)
(* C3: an advance onto a closing bracket fails when the nesting stack is   *)
(* empty or its top frame is of another kind; the mismatch error names the *)
(* closer's kind, the kind expected and the opener's location.  It         *)
(* succeeds, popping exactly the top frame, when the kinds agree.          *)
(***************************************************************************)
C3_CloserNeedsMatchingOpener ==
    (Scanned /\ ScannedChar \in Closers)
    => LET bt == KindOf(ScannedChar)
       IN  IF pre.nesting = <<>>
           THEN /\ res.tag = "Err"
                /\ res.error.kind = "not_nested"
                /\ res.error.bt = bt
                /\ lexer.nesting = <<>>
           ELSE IF pre.nesting[1].bt # bt
           THEN /\ res.tag = "Err"
                /\ res.error.kind = "mismatch"
                /\ res.error.bt = bt
                /\ res.error.top_bt = pre.nesting[1].bt
                /\ res.error.top_location = pre.nesting[1].location
                /\ lexer.nesting = pre.nesting
           ELSE /\ res.tag = "Ok"
                /\ lexer.nesting = Tail(pre.nesting)
                /\ lexer.state.tag = "Read"
                /\ lexer.state.token.lexeme = LexemeOf(ScannedChar)

\* An advance onto a closer of the wrong kind has failed.
C3_Witness ==
    /\ Scanned
    /\ ScannedChar \in Closers
    /\ res.tag = "Err"
    /\ res.error.kind = "mismatch"

(***************************************************************************)
(* C4: on an input of well-nested brackets no advance returns an error,    *)
(* the tokens buffered are the brackets read so far, one each and in       *)
(* input order, the nesting stack holds the openers still open, and the    *)
(* lexer ends at EOF with all brackets read and an empty stack.            *)
(***************************************************************************)
C4_WellNestedLexes ==
    WellNested(input)
    => /\ status \notin {"panicked", "hung"}
       /\ op.name = "advance_mut" => res.tag = "Ok"
       /\ res.tag = "Err"
             => res.error.kind \in {"unexpected", "not_started", "eof"}
       /\ Len(tokens) <= Len(input)
       /\ \A i \in 1..Len(tokens) : tokens[i].lexeme = LexemeOf(input[i])
       /\ lexer.contents = SubSeq(input, Len(tokens) + 1, Len(input))
       /\ [i \in 1..Len(lexer.nesting) |-> lexer.nesting[i].bt]
             = Balance(SubSeq(input, 1, Len(tokens)), <<>>)
       /\ (Scanned /\ pre.contents = <<>>) => lexer.state = EOF
       /\ lexer.state = EOF
             => Len(tokens) = Len(input) /\ lexer.nesting = <<>>

\* The input ([{}]) has been lexed to its end.
C4_Witness ==
    /\ input = <<"(", "[", "{", "}", "]", ")">>
    /\ lexer.state = EOF
    /\ Len(tokens) = 6
    /\ lexer.nesting = <<>>

(***************************************************************************)
(* C5: at EOF an advance returns Ok with the current location and changes  *)
(* nothing, and peek returns None; a scan from Start that finds no further *)
(* significant character enters the EOF state, and the state is entered by *)
(* no other scan than one that runs out of text or reads a U+0000 in it.   *)
(***************************************************************************)
C5_EofIsFinal ==
    /\ (op.name = "advance_mut" /\ pre.state = EOF)
          => res = Ok(pre.location) /\ lexer = pre
    /\ (op.name = "peek" /\ pre.state = EOF) => res = None
    /\ (op.name \in {"advance_mut", "chomp"} /\ pre.state # EOF
           /\ lexer.state = EOF)
          => Significant(pre.contents, pre.nesting # <<>>) \in {Nothing, NUL}
    /\ (Scanned /\ ScannedChar = Nothing)
          => res.tag = "Ok" /\ lexer.state = EOF

\* An advance was made at EOF with blanks left in the input.
C5_Witness ==
    /\ op.name = "advance_mut"
    /\ pre.state = EOF
    /\ pre.contents # <<>>
    /\ tokens # <<>>

(***************************************************************************)
(* C6: peek and peek_matches leave the lexer as it is; peek returns the    *)
(* buffered token in the Read state and None otherwise; peek_matches(l) is *)
(* true exactly in a Read state whose token's lexeme equals l.             *)
(***************************************************************************)
C6_PeekIsPure ==
    /\ op.name = "peek"
          => /\ lexer = pre
             /\ res = IF pre.state.tag = "Read"
                      THEN Some(pre.state.token) ELSE None
    /\ op.name = "peek_matches"
          => /\ lexer = pre
             /\ res = Bool(/\ pre.state.tag = "Read"
                           /\ pre.state.token.lexeme = op.arg)

\* peek_matches has answered true on a buffered identifier.
C6_Witness ==
    /\ op.name = "peek_matches"
    /\ res = Bool(TRUE)
    /\ op.arg = Identifier(<<"a">>)
    /\ lexer.state.tag = "Read"

(***************************************************************************)
(* C7: a chomp(expected) that returns succeeds if and only if the buffered *)
(* token's lexeme equals expected, and a chomp that succeeds leaves the    *)
(* lexer as one advance leaves it.                                         *)
(***************************************************************************)
C7_ChompSucceedsIffMatch ==
    (op.name = "chomp" /\ res.tag \in {"Ok", "Err"})
    => /\ res.tag = "Ok"
             <=> (pre.state.tag = "Read" /\ pre.state.token.lexeme = op.arg)
       /\ res.tag = "Ok" => lexer = advance_mut(pre).lx

(***************************************************************************)
(* C8: a chomp that fails leaves the remaining input as it was; on a       *)
(* buffered token that differs it returns an unexpected-token error at     *)
(* that token naming the lexeme found and the one expected, in Started a   *)
(* not-started error, at EOF a hit-EOF error naming the expectation, and   *)
(* in these three cases the whole lexer is unchanged.                      *)
(***************************************************************************)
C8_FailingChomp ==
    op.name = "chomp"
    => /\ res.tag = "Err" => lexer.contents = pre.contents
       /\ pre.state = Started
             => res = Err(NotStartedError(pre.location)) /\ lexer = pre
       /\ pre.state = EOF
             => res = Err(EofError(pre.location, op.arg)) /\ lexer = pre
       /\ (pre.state.tag = "Read" /\ pre.state.token.lexeme # op.arg)
             => /\ res.tag = "Err"
                /\ res.error.kind = "unexpected"
                /\ res.error.location = pre.state.token.location
                /\ res.error.found = pre.state.token.lexeme
                /\ res.error.expected = op.arg
                /\ lexer = pre

\* A chomp has failed on a token that differs from the expectation.
C8_Witness ==
    /\ op.name = "chomp"
    /\ res.tag = "Err"
    /\ res.error.kind = "unexpected"
    /\ pre.state.tag = "Read"

(***************************************************************************)
(* C9 as stated: on each of the one-character inputs ( ) [ ] { } ; , the   *)
(* first advance succeeds and buffers the token of that character at       *)
(* line 1, column 0.                                                       *)
(***************************************************************************)
C9_PunctuationAtColumnZero ==
    (Len(input) = 1 /\ input[1] \in Openers \cup Closers \cup {";", ","}
        /\ Scanned /\ pre.state = Started)
    => /\ res.tag = "Ok"
       /\ lexer.state = Read(Token(Loc(1, 0), LexemeOf(input[1])))

(***************************************************************************)
(* C9 amended: on each of the one-character inputs ( [ { ; , the first     *)
(* advance succeeds and buffers the token of that character at line 1,     *)
(* column 1, and the second advance reaches EOF; on each of ) ] } the      *)
(* first advance fails with the not-nested error and buffers nothing.      *)
(***************************************************************************)
C9_SinglePunctuation ==
    (Len(input) = 1 /\ op.name = "advance_mut")
    => /\ (input[1] \in Openers \cup {";", ","} /\ pre.state = Started)
             => /\ res = Ok(Loc(1, 1))
                /\ lexer.state = Read(Token(Loc(1, 1), LexemeOf(input[1])))
                /\ lexer.contents = <<>>
                /\ Len(tokens) = 1
       /\ (input[1] \in Openers \cup {";", ","} /\ pre.state.tag = "Read")
             => /\ res.tag = "Ok"
                /\ lexer.state = EOF
                /\ Len(tokens) = 1
       /\ (input[1] \in Closers /\ pre.state = Started)
             => /\ res.tag = "Err"
                /\ res.error.kind = "not_nested"
                /\ lexer.state = Started
                /\ tokens = <<>>

\* The input ( has been lexed to EOF, one token buffered on the way.
C9_Witness ==
    /\ input = <<"(">>
    /\ op.name = "advance_mut"
    /\ pre.state.tag = "Read"
    /\ lexer.state = EOF
    /\ Len(tokens) = 1

(***************************************************************************)
(* C10: a buffered Operator token holds a whole run of operator            *)
(* characters: its text is non-empty, made of operator characters only,    *)
(* starts at the first non-blank character scanned, and the character      *)
(* that follows it in the input, if any, is not an operator character.     *)
(***************************************************************************)
C10_OperatorIsMaximal ==
    (Buffered /\ lexer.state.token.lexeme.kind = "Operator")
    => LET text == lexer.state.token.lexeme.text
       IN  /\ text # <<>>
           /\ \A i \in 1..Len(text) : text[i] \in OperatorChars
           /\ lexer.contents # <<>> => lexer.contents[1] \notin OperatorChars
           /\ \E k \in 0..Len(pre.contents) :
                 /\ \A i \in 1..k : pre.contents[i] \in Blanks
                 /\ SubSeq(pre.contents, k + 1, Len(pre.contents))
                       = text \o lexer.contents

\* The run => has been buffered as one token.
C10_Witness ==
    /\ Buffered
    /\ lexer.state.token.lexeme = Operator(<<"=", ">">>)

(***************************************************************************)
(* Vocabulary of the properties on numbers and strings.                    *)
(***************************************************************************)
DigitChars == <<"0", "1", "2", "3", "4", "5", "6", "7", "8", "9">>

Digits == {DigitChars[i] : i \in 1..10}

\* text without its leading blanks.
RECURSIVE SkipBlanks(_)
SkipBlanks(text) ==
    IF text # <<>> /\ text[1] \in Blanks THEN SkipBlanks(Tail(text))
    ELSE text

\* The longest prefix of text made of characters of S.
RECURSIVE TakeWhile(_, _)
TakeWhile(text, S) ==
    IF text # <<>> /\ text[1] \in S
    THEN <<text[1]>> \o TakeWhile(Tail(text), S)
    ELSE <<>>

\* The prefix of text before the first occurrence of ch.
RECURSIVE UpTo(_, _)
UpTo(text, ch) ==
    IF text # <<>> /\ text[1] # ch
    THEN <<text[1]>> \o UpTo(Tail(text), ch)
    ELSE <<>>

\* text without its first n characters.
Drop(text, n) == SubSeq(text, n + 1, Len(text))

\* The number a run of decimal digits denotes.
RECURSIVE DecimalValue(_)
DecimalValue(ds) ==
    IF ds = <<>> THEN 0
    ELSE 10 * DecimalValue(SubSeq(ds, 1, Len(ds) - 1))
            + ((CHOOSE i \in 1..10 : DigitChars[i] = ds[Len(ds)]) - 1)

\* The last advance buffered lexeme and left rest unread.
Lexed(lexeme, rest) ==
    /\ res.tag = "Ok"
    /\ lexer.state.tag = "Read"
    /\ lexer.state.token.lexeme = lexeme
    /\ lexer.contents = rest

(***************************************************************************)
(* C11: an advance whose scan stops at a digit buffers Signed(n), n the    *)
(* value of the maximal digit run; one that stops at '-' buffers the       *)
(* negative Signed of the digit run after it if a digit follows, the       *)
(* maximal operator run as one Operator if an operator character follows,  *)
(* and Operator("-") in every other case, end of input included.           *)
(***************************************************************************)
C11_MinusDisambiguation ==
    LET text == SkipBlanks(pre.contents)
        run == TakeWhile(text, Digits)
        after == Tail(text)
        negrun == TakeWhile(after, Digits)
        oprun == TakeWhile(text, OperatorChars)
    IN  (Scanned /\ ScannedChar \in Digits \cup {"-"}
            /\ Len(run) < Len(I64MaxDigits)
            /\ Len(negrun) < Len(I64MaxDigits))
        => CASE text[1] \in Digits ->
                  Lexed(Signed(DecimalValue(run)), Drop(text, Len(run)))
             [] text[1] = "-" /\ negrun # <<>> ->
                  Lexed(Signed(0 - DecimalValue(negrun)),
                        Drop(after, Len(negrun)))
             [] text[1] = "-" /\ negrun = <<>> /\ Len(oprun) > 1 ->
                  Lexed(Operator(oprun), Drop(text, Len(oprun)))
             [] OTHER -> Lexed(Operator(<<"-">>), after)

\* "-42" has been lexed to Signed(-42), and nothing is left.
C11_Witness ==
    /\ Scanned
    /\ pre.contents = <<"-", "4", "2">>
    /\ Lexed(Signed(0 - 42), <<>>)

(***************************************************************************)
(* C12: an advance whose scan stops at a double-quote that has a closing   *)
(* double-quote after it succeeds, buffers a QuotedString whose text runs  *)
(* from the opening quote through the closing quote and no further, and    *)
(* leaves unread exactly what follows the closing quote.                   *)
(***************************************************************************)
C12_QuotedStringSpan ==
    LET text == SkipBlanks(pre.contents)
        span == Len(UpTo(Tail(text), "\"")) + 2
    IN  (Scanned /\ ScannedChar = "\"" /\ span <= Len(text))
        => /\ status = "running"
           /\ Lexed(QuotedString(SubSeq(text, 1, span)), Drop(text, span))

(***************************************************************************)
(* Vocabulary of the properties on the parser.                             *)
(***************************************************************************)
\* The reserved words.
Keywords ==
    {<<"i", "f">>, <<"t", "h", "e", "n">>, <<"e", "l", "s", "e">>,
     <<"d", "o">>, <<"l", "e", "t">>, <<"i", "n">>,
     <<"m", "a", "t", "c", "h">>}

\* The last call was rule, on a lexer with a token buffered.
Parsed(rule) == op.name = rule /\ pre.state.tag = "Read"

\* The lexeme buffered when the last call was made.
PreLexeme == pre.state.token.lexeme

\* lx has lexeme buffered.
Holds(lx, lexeme) == lx.state.tag = "Read" /\ lx.state.token.lexeme = lexeme

\* The last call returned Ok(None).
NoMatch == res = Ok(None)

(***************************************************************************)
(* C13: parse_decl called with a buffered token that is not an identifier, *)
(* or is one of the seven reserved words, returns Ok(None) and leaves the  *)
(* lexer as it was; so no Decl is named by a reserved word.                *)
(***************************************************************************)
C13_KeywordsAreNotNames ==
    (Parsed("parse_decl")
        /\ (PreLexeme.kind # "Identifier" \/ PreLexeme.text \in Keywords))
    => NoMatch /\ lexer = pre

(***************************************************************************)
(* C14 as stated: parse_decl, parse_predicate and parse_callsite_term,     *)
(* called with a token buffered, return Ok(None) only with the lexer as it *)
(* was given.                                                              *)
(***************************************************************************)
C14_NoMatchConsumesNothing ==
    ((Parsed("parse_decl") \/ Parsed("parse_predicate")
         \/ Parsed("parse_callsite_term")) /\ NoMatch)
    => lexer = pre

(***************************************************************************)
(* C14: on a started lexer, parse_decl and parse_predicate return Ok(None) *)
(* only with the lexer as it was given; a parenthesised predicate group    *)
(* and a let term never return Ok(None); parse_callsite_term returns       *)
(* Ok(None) with the lexer as given at end of input, on '=', on ')' and on *)
(* the keywords if, then, else, do, in, but on ';' it has consumed exactly *)
(* that semicolon, and on match it has consumed the keyword and a subject. *)
(***************************************************************************)
C14_NoMatchConsumesOnlySemicolon ==
    (op.name \in {"parse_decl", "parse_predicate", "parse_callsite_term"}
        /\ pre.state.tag # "Started" /\ NoMatch)
    => CASE op.name = "parse_decl" -> lexer = pre
         [] op.name = "parse_predicate" ->
              lexer = pre /\ ~Holds(pre, LParen)
         [] Holds(pre, Semicolon) ->
              lexer = advance(pre).lx /\ lexer # pre
         [] Holds(pre, Identifier(<<"m", "a", "t", "c", "h">>)) ->
              Len(lexer.contents) < Len(advance(pre).lx.contents)
         [] OTHER ->
              /\ lexer = pre
              /\ \/ pre.state = EOF
                 \/ PreLexeme \in {Operator(<<"=">>), RParen}
                 \/ /\ PreLexeme.kind = "Identifier"
                    /\ PreLexeme.text \in Keywords
                          \ {<<"l", "e", "t">>, <<"m", "a", "t", "c", "h">>}

\* parse_callsite_term has answered Ok(None) on a buffered ';'.
C14_Witness ==
    /\ Parsed("parse_callsite_term")
    /\ PreLexeme = Semicolon
    /\ NoMatch
    /\ Holds(lexer, Identifier(<<"x">>))

\* The run of attempts parse_many makes from lx: the values of the attempts
\* that matched, the lexer before the attempt that did not, and that
\* attempt's outcome (a no-match or a failure).
RECURSIVE Attempts(_, _)
Attempts(parser, lx) ==
    LET r == Call(parser, lx)
    IN  IF Failed(r) \/ r.res.value = None
        THEN [items |-> <<>>, before |-> lx, last |-> r]
        ELSE LET t == Attempts(parser, r.lx)
             IN  [items |-> <<r.res.value.value>> \o t.items,
                  before |-> t.before, last |-> t.last]

\* No Callsite in the expression has an empty argument list.
RECURSIVE NoEmptyCallsite(_)
NoEmptyCallsite(expr) ==
    CASE expr.node = "Callsite" ->
           /\ Len(expr.arguments) >= 1
           /\ NoEmptyCallsite(expr.function)
           /\ \A i \in 1..Len(expr.arguments) :
                  NoEmptyCallsite(expr.arguments[i])
      [] expr.node = "Let" ->
           NoEmptyCallsite(expr.value) /\ NoEmptyCallsite(expr.body)
      [] OTHER -> TRUE

\* The error is chomp's: another token, or the end of input, where
\* lexeme was required.
ChompError(result, lexeme) ==
    /\ result.tag = "Err"
    /\ result.error.kind \in {"unexpected", "eof"}
    /\ result.error.expected = lexeme

(***************************************************************************)
(* C15: parse_callsite returns no Callsite with an empty argument list.    *)
(* With no leading term after the semicolons it fails with the 'missing    *)
(* function callsite expression' error; with a leading term and no further *)
(* term it returns that term's expression; with n >= 1 further terms it    *)
(* returns the Callsite of the leading term and those n terms in order.    *)
(***************************************************************************)
C15_CallsiteHasArguments ==
    op.name = "parse_callsite"
    => LET k == skip_semicolon(pre)
           t == parse_callsite_term(k.lx)
           rest == Attempts("parse_callsite_term", t.lx)
       IN  /\ res.tag = "Ok" => NoEmptyCallsite(res.value)
           /\ (~Failed(k) /\ t.res = Ok(None))
              => res = Err(MissingCallsiteError(t.lx.location))
           /\ (~Failed(k) /\ ~Failed(t) /\ t.res.value # None
                  /\ ~Failed(rest.last))
              => /\ res = Ok(IF rest.items = <<>> THEN t.res.value.value
                             ELSE Callsite(t.res.value.value, rest.items))
                 /\ lexer = rest.last.lx

\* "f x ( x )" has been parsed to the Callsite of f on x and x.
C15_Witness ==
    /\ Parsed("parse_callsite")
    /\ res.tag = "Ok"
    /\ res.value.node = "Callsite"
    /\ res.value.function.node = "Symbol"
    /\ Len(res.value.arguments) = 2
    /\ res.value.arguments[2].node = "Symbol"
    /\ lexer.state = EOF

(***************************************************************************)
(* C16: parse_decl called with a buffered identifier that is no reserved   *)
(* word reads the predicates that follow, then requires '=': if another    *)
(* token is there it fails with chomp's error and builds no Decl (if the   *)
(* input ends there, the predicates have already failed with an end of     *)
(* input error); after '=' it reads one call-site expression and returns   *)
(* Decl{id, predicates, body}.  "f x = x" is Decl{f, [Irrefutable x],      *)
(* Symbol x}.                                                              *)
(***************************************************************************)
C16_DeclShape ==
    (Parsed("parse_decl") /\ PreLexeme.kind = "Identifier"
        /\ PreLexeme.text \notin Keywords)
    => LET a == advance(pre)
           ps == parse_predicates(a.lx)
           c == advance(ps.lx)
           e == parse_callsite(c.lx)
           equals == Operator(<<"=">>)
       IN  /\ res.tag = "Ok"
              => /\ ~Failed(ps) /\ Holds(ps.lx, equals) /\ ~Failed(e)
                 /\ res.value =
                       Some(Decl(Identifier_new(PreLexeme.text,
                                                pre.state.token.location),
                                 ps.res.value, e.res.value))
                 /\ lexer = e.lx
           /\ (~Failed(a) /\ ~Failed(ps) /\ ~Holds(ps.lx, equals))
              => ChompError(res, equals)
           /\ (~Failed(a) /\ Failed(ps))
              => /\ res = ps.res
                 /\ ps.lx.state = EOF
                    => /\ res.tag = "Err"
                       /\ res.error.kind \in {"missing_predicate", "eof"}
           /\ (~Failed(a) /\ ~Failed(ps) /\ Holds(ps.lx, equals)
                  /\ ~Failed(c) /\ ~Failed(e))
              => res.tag = "Ok"
           /\ (input = Join(<<<<"f">>, <<"x">>, <<"=">>, <<"x">>>>)
                  /\ PreLexeme.text = <<"f">>)
              => res = Ok(Some(Decl(
                     Identifier_new(<<"f">>, Loc(1, 1)),
                     <<Irrefutable(Identifier_new(<<"x">>, Loc(1, 3)))>>,
                     Symbol(Identifier_new(<<"x">>, Loc(1, 7))))))

\* "f x = x" has been parsed to a Decl with one predicate.
C16_Witness ==
    /\ Parsed("parse_decl")
    /\ input = Join(<<<<"f">>, <<"x">>, <<"=">>, <<"x">>>>)
    /\ PreLexeme = Identifier(<<"f">>)
    /\ res.tag = "Ok"
    /\ res.value # None
    /\ Len(res.value.value.predicates) = 1
    /\ res.value.value.body.node = "Symbol"

(***************************************************************************)
(* C17: a call-site term that starts with let returns a Let only when an   *)
(* identifier, '=', a call-site expression, the identifier in and a        *)
(* call-site expression follow in that order; the value expression has     *)
(* stopped with in still buffered; binding, value and body are those       *)
(* parts.  Another token (or the end of input) in place of the identifier, *)
(* of '=' or of in is an error, and no Let is built.  "g = let x = 1 in x" *)
(* is the Decl of g with body Let{x, 1, Symbol x}.                         *)
(***************************************************************************)
C17_LetShape ==
    LET a == advance(pre)
        i == advance(a.lx)
        v == parse_callsite(advance(i.lx).lx)
        b == parse_callsite(advance(v.lx).lx)
        equals == Operator(<<"=">>)
        in == Identifier(<<"i", "n">>)
        named == a.lx.state.tag = "Read"
                    /\ a.lx.state.token.lexeme.kind = "Identifier"
    IN  /\ (Parsed("parse_callsite_term")
               /\ PreLexeme = Identifier(<<"l", "e", "t">>))
           => /\ res # Ok(None)
              /\ res.tag = "Ok"
                 => /\ named /\ Holds(i.lx, equals) /\ ~Failed(v)
                    /\ Holds(v.lx, in) /\ ~Failed(b)
                    /\ res.value =
                          Some(Let(pre.location,
                                   Identifier_new(
                                       a.lx.state.token.lexeme.text,
                                       a.lx.state.token.location),
                                   v.res.value, b.res.value))
                    /\ lexer = b.lx
              /\ (~Failed(a) /\ ~named)
                 => res = Err(ExpectedIdentifierError(a.lx.location))
              /\ (~Failed(a) /\ named /\ ~Failed(i)
                     /\ ~Holds(i.lx, equals))
                 => ChompError(res, equals)
              /\ (~Failed(a) /\ named /\ ~Failed(i) /\ Holds(i.lx, equals)
                     /\ ~Failed(advance(i.lx)) /\ ~Failed(v)
                     /\ ~Holds(v.lx, in))
                 => ChompError(res, in)
        /\ (Parsed("parse_decl")
               /\ input = Join(<<<<"g">>, <<"=">>, <<"l", "e", "t">>, <<"x">>,
                                 <<"=">>, <<"1">>, <<"i", "n">>, <<"x">>>>)
               /\ PreLexeme = Identifier(<<"g">>))
           => res = Ok(Some(Decl(
                  Identifier_new(<<"g">>, Loc(1, 1)), <<>>,
                  Let(Loc(1, 7), Identifier_new(<<"x">>, Loc(1, 9)),
                      LiteralInteger(Loc(1, 13), 1),
                      Symbol(Identifier_new(<<"x">>, Loc(1, 18)))))))

\* The let term of "g = let x = 1 in x" has been parsed to a Let.
C17_Witness ==
    /\ Parsed("parse_callsite_term")
    /\ PreLexeme = Identifier(<<"l", "e", "t">>)
    /\ res.tag = "Ok"
    /\ res.value.value.node = "Let"
    /\ res.value.value.value.node = "LiteralInteger"
    /\ res.value.value.body.node = "Symbol"
    /\ lexer.state = EOF

\* The predicates of a parenthesised group read from lx, the number of
\* commas after them, and the lexer where the reading stopped.
RECURSIVE Group(_)
Group(lx) ==
    LET r == parse_predicate(lx)
    IN  IF Failed(r) \/ r.res.value = None
        THEN [items |-> <<>>, commas |-> 0, lx |-> r.lx]
        ELSE IF Holds(r.lx, Comma)
        THEN LET g == Group(advance(r.lx).lx)
             IN  [items |-> <<r.res.value.value>> \o g.items,
                  commas |-> g.commas + 1, lx |-> g.lx]
        ELSE [items |-> <<r.res.value.value>>, commas |-> 0, lx |-> r.lx]

(***************************************************************************)
(* C18 as stated: a predicate that starts with '(' and parses is the one   *)
(* predicate of the group if the group has one predicate and no comma, no  *)
(* predicate if the group is empty, and the Tuple of the group's n >= 2    *)
(* predicates in order otherwise, the closing ')' consumed.                *)
(***************************************************************************)
C18_EmptyGroupIsNoPredicate ==
    (Parsed("parse_predicate") /\ PreLexeme = LParen /\ res.tag = "Ok")
    => LET g == Group(advance(pre).lx)
       IN  /\ Holds(g.lx, RParen)
           /\ lexer = advance(g.lx).lx
           /\ (Len(g.items) = 1 /\ g.commas = 0)
              => res.value = Some(g.items[1])
           /\ Len(g.items) = 0 => res.value = None
           /\ (Len(g.items) >= 2 /\ g.commas = Len(g.items) - 1)
              => res.value = Some(Tuple(pre.state.token.location, g.items))

(***************************************************************************)
(* C18: a predicate that starts with '(' and parses is the one predicate   *)
(* of the group if the group has one predicate and no comma, the Tuple of  *)
(* no dims if the group is empty, and the Tuple of the group's n >= 2      *)
(* predicates in order otherwise, the closing ')' consumed.                *)
(***************************************************************************)
C18_EmptyGroupIsEmptyTuple ==
    (Parsed("parse_predicate") /\ PreLexeme = LParen /\ res.tag = "Ok")
    => LET g == Group(advance(pre).lx)
       IN  /\ Holds(g.lx, RParen)
           /\ lexer = advance(g.lx).lx
           /\ (Len(g.items) = 1 /\ g.commas = 0)
              => res.value = Some(g.items[1])
           /\ Len(g.items) = 0
              => res.value = Some(Tuple(pre.state.token.location, <<>>))
           /\ (Len(g.items) >= 2 /\ g.commas = Len(g.items) - 1)
              => res.value = Some(Tuple(pre.state.token.location, g.items))

\* "( x , 1 , A x )" has been parsed to a Tuple of three predicates.
C18_Witness ==
    /\ Parsed("parse_predicate")
    /\ PreLexeme = LParen
    /\ res.tag = "Ok"
    /\ res.value.value.node = "Tuple"
    /\ Len(res.value.value.dims) = 3
    /\ res.value.value.dims[3].node = "Ctor"
    /\ lexer.state = EOF

(***************************************************************************)
(* C19 as stated: parse_many called with a token buffered and returning Ok *)
(* returns the values of the attempts that matched, in order, and the      *)
(* lexer as it was immediately before the attempt that did not match.      *)
(***************************************************************************)
C19_ManyLosesNoToken ==
    (Parsed("parse_many") /\ res.tag = "Ok")
    => LET t == Attempts(op.arg, pre)
       IN  /\ t.last.res = Ok(None)
           /\ res.value = t.items
           /\ lexer = t.before

(***************************************************************************)
(* C19: parse_many called on a started lexer and returning Ok returns the  *)
(* values of the attempts that matched, in order, and the lexer the        *)
(* attempt that did not match returned.  That is the lexer as it was       *)
(* before that attempt when the sub-rule is parse_decl, and when the       *)
(* sub-rule is parse_callsite_term unless the attempt was made on ';',     *)
(* which it has consumed, or on a match term.                              *)
(***************************************************************************)
C19_ManyReturnsLastLexer ==
    (op.name = "parse_many" /\ pre.state.tag # "Started" /\ res.tag = "Ok")
    => LET t == Attempts(op.arg, pre)
       IN  /\ t.last.res = Ok(None)
           /\ res.value = t.items
           /\ lexer = t.last.lx
           /\ CASE op.arg = "parse_decl" -> lexer = t.before
                [] Holds(t.before, Semicolon) ->
                     lexer = advance(t.before).lx /\ lexer # t.before
                [] Holds(t.before, Identifier(<<"m", "a", "t", "c", "h">>)) ->
                     lexer # t.before
                [] OTHER -> lexer = t.before

\* parse_many over parse_callsite_term has read two terms of "f x ; f"
\* and stopped past the semicolon.
C19_Witness ==
    /\ Parsed("parse_many")
    /\ op.arg = "parse_callsite_term"
    /\ res.tag = "Ok"
    /\ Len(res.value) = 2
    /\ Holds(Attempts(op.arg, pre).before, Semicolon)
    /\ Holds(lexer, Identifier(<<"f">>))

(***************************************************************************)
(* C20: a top-level parse (parse_many over parse_decl) fails exactly when  *)
(* one of its parse_decl attempts fails, and then returns the error of the *)
(* first such attempt unchanged, with no Decl, the lexer left where that   *)
(* attempt stopped.                                                        *)
(***************************************************************************)
C20_FirstErrorIsTheResult ==
    (op.name = "parse_many" /\ op.arg = "parse_decl")
    => LET t == Attempts("parse_decl", pre)
       IN  /\ res.tag = "Err" <=> t.last.res.tag = "Err"
           /\ Failed(t.last) => res = t.last.res /\ lexer = t.last.lx

\* The second declaration of "f = x ; f x ; f = 1" has failed on ';', and
\* the parse has returned that error.
C20_Witness ==
    /\ Parsed("parse_many")
    /\ op.arg = "parse_decl"
    /\ Len(Attempts("parse_decl", pre).items) = 1
    /\ res.tag = "Err"
    /\ res.error.kind = "unexpected"
    /\ res.error.found = Semicolon
    /\ Len(lexer.contents) > 2

(***************************************************************************)
(* Vocabulary of the properties on whole inputs and on locations.          *)
(***************************************************************************)
\* The source span of the token an advance from lx to next has buffered: the
\* text its lexeme holds, else the characters read less the leading blanks,
\* a line-feed for the Semicolon of a line-feed.
Span(lx, next) ==
    LET lexeme == next.state.token.lexeme
        read == SkipBlanks(SubSeq(lx.contents, 1,
                                  Len(lx.contents) - Len(next.contents)))
    IN  IF lexeme.kind \in {"Identifier", "Operator", "QuotedString"}
        THEN lexeme.text
        ELSE IF lexeme.kind = "Signed" THEN read
        ELSE IF lexeme.kind = "Semicolon" /\ (read = <<>> \/ read[1] # ";")
        THEN <<"\n">>
        ELSE <<read[1]>>

\* The tokens of a whole text: advances from lx until EOF or a failure,
\* toks the lexemes and spans buffered so far.
RECURSIVE LexAll(_, _)
LexAll(lx, toks) ==
    LET o == advance_mut(lx)
    IN  IF o.res.tag # "Ok" THEN [ok |-> FALSE, toks |-> toks]
        ELSE IF o.lx.state = EOF THEN [ok |-> TRUE, toks |-> toks]
        ELSE LexAll(o.lx,
                    Append(toks, [lexeme |-> o.lx.state.token.lexeme,
                                  span |-> Span(lx, o.lx)]))

Lex(text) == LexAll(new(text), <<>>)

LexemesOf(toks) == [i \in 1..Len(toks) |-> toks[i].lexeme]

\* The spans of toks one after the other, sep between two of them.
RECURSIVE JoinSpans(_, _)
JoinSpans(toks, sep) ==
    IF toks = <<>> THEN <<>>
    ELSE IF Len(toks) = 1 THEN toks[1].span
    ELSE toks[1].span \o sep \o JoinSpans(Tail(toks), sep)

\* The whole input has been lexed, by advances alone.
LexedToEnd ==
    /\ lexer.state = EOF
    /\ errors = 0
    /\ status = "running"
    /\ op.name = "advance_mut"
    /\ LexemesOf(Lex(input).toks) = [i \in 1..Len(tokens) |-> tokens[i].lexeme]

\* Lexing the spans of the input's tokens, sep between them, gives the
\* lexemes of the input again.
Relexes(sep) ==
    LET t == Lex(input)
        again == Lex(JoinSpans(t.toks, sep))
    IN  again.ok /\ LexemesOf(again.toks) = LexemesOf(t.toks)

(***************************************************************************)
(* C21: for an input that lexes without error, lexing its tokens' source   *)
(* spans put one after the other, in order, gives the same sequence of     *)
(* lexemes again; the spans are taken to follow each other directly or,    *)
(* that two of them may not run together, with one space between them.     *)
(***************************************************************************)
C21_SpansRelex ==
    (LexedToEnd /\ Lex(input).ok) => Relexes(<<>>) \/ Relexes(<<" ">>)

\* The number of line-feeds in text.
RECURSIVE LineFeeds(_)
LineFeeds(text) ==
    IF text = <<>> THEN 0
    ELSE (IF text[1] = "\n" THEN 1 ELSE 0) + LineFeeds(Tail(text))

\* The number of characters of text after its last line-feed.
RECURSIVE LastLineLen(_)
LastLineLen(text) ==
    IF text = <<>> \/ text[Len(text)] = "\n" THEN 0
    ELSE 1 + LastLineLen(SubSeq(text, 1, Len(text) - 1))

\* The position reached from location by reading text.
Moved(location, text) ==
    IF LineFeeds(text) = 0
    THEN Loc(location.line, location.col + Len(text))
    ELSE Loc(location.line + LineFeeds(text), LastLineLen(text))

\* The position of the character that follows text in the input, the first
\* character of the input at line 1, column 0.
PositionAfter(text) == Moved(Loc(1, 0), text)

\* The part of the input removed before the last call.
Consumed == SubSeq(input, 1, Len(input) - Len(pre.contents))

\* The blanks the last scan skipped before the character it stopped at.
Skipped ==
    TakeWhile(pre.contents,
              IF pre.nesting # <<>> THEN Blanks \ {"\n"} ELSE Blanks)

(***************************************************************************)
(* C22 as stated: the location of a buffered token is the position of its  *)
(* first character, the first character of the input at line 1, column 0:  *)
(* a token preceded on its line by k characters has column k.              *)
(***************************************************************************)
C22_LocationBeforeFirstChar ==
    (Buffered /\ ScannedChar # "\n")
    => lexer.state.token.location = PositionAfter(Consumed \o Skipped)

(***************************************************************************)
(* C22 amended: the location of a buffered token, which the advance that   *)
(* buffered it returns, is the lexer's location after the blanks skipped   *)
(* and the token's first character have been counted, and before the       *)
(* line-feed for the Semicolon of a line-feed; where the lexer's location  *)
(* was the position of the next character, a token preceded on its line by *)
(* k characters has column k + 1.                                          *)
(***************************************************************************)
C22_LocationAfterFirstChar ==
    Buffered
    => LET location == lexer.state.token.location
       IN  /\ location = IF ScannedChar = "\n"
                         THEN Moved(pre.location, Skipped)
                         ELSE Moved(pre.location,
                                    Append(Skipped, ScannedChar))
           /\ op.name = "advance_mut" => res = Ok(location)
           /\ (ScannedChar # "\n" /\ pre.location = PositionAfter(Consumed))
              => /\ location.line = PositionAfter(Consumed \o Skipped).line
                 /\ location.col = LastLineLen(Consumed \o Skipped) + 1

\* The identifier b of a LF b has been buffered at line 2, column 1.
C22_Witness ==
    /\ Buffered
    /\ input = <<"a", "\n", "b">>
    /\ pre.location = PositionAfter(Consumed)
    /\ LineFeeds(Skipped) = 1
    /\ lexer.state.token = Token(Loc(2, 1), Identifier(<<"b">>))

\* The part of the input removed so far.
Removed == SubSeq(input, 1, Len(input) - Len(lexer.contents))

\* The last call was an advance, alone or in a chomp, that returned Ok.
Advanced == op.name \in {"advance_mut", "chomp"} /\ res.tag = "Ok"

(***************************************************************************)
(* C23: after a successful advance the lexer's location counts the         *)
(* characters removed from the input: its line is 1 plus the number of     *)
(* line-feeds removed, its column the number of characters removed since   *)
(* the last of them.                                                       *)
(***************************************************************************)
C23_LocationCountsRemoved ==
    Advanced
    => /\ lexer.location.line = 1 + LineFeeds(Removed)
       /\ lexer.location.col = LastLineLen(Removed)

\* The digits of 2^63.
TwoTo63 ==
    <<"9", "2", "2", "3", "3", "7", "2", "0", "3", "6", "8", "5", "4", "7",
      "7", "5", "8", "0", "8">>

\* ds without its leading zeros.
RECURSIVE Significand(_)
Significand(ds) ==
    IF ds # <<>> /\ ds[1] = "0" THEN Significand(Tail(ds)) ELSE ds

DigitOf(ch) == (CHOOSE i \in 1..10 : DigitChars[i] = ch) - 1

\* The number ds denotes is less than the one limit denotes, neither with
\* a leading zero.
Below(ds, limit) ==
    \/ Len(ds) < Len(limit)
    \/ /\ Len(ds) = Len(limit)
       /\ \E i \in 1..Len(ds) :
             /\ SubSeq(ds, 1, i - 1) = SubSeq(limit, 1, i - 1)
             /\ DigitOf(ds[i]) < DigitOf(limit[i])

\* The literal of digit run ds, negative or not, is in the range of i64:
\* -2^63 .. 2^63 - 1.
InI64(negative, ds) ==
    \/ Below(Significand(ds), TwoTo63)
    \/ negative /\ Significand(ds) = TwoTo63

(***************************************************************************)
(* C24: an advance whose scan stops at a decimal literal, a digit run with *)
(* or without a '-' before it, buffers Signed of exactly the literal's     *)
(* value and leaves unread what follows the run if the value is in the     *)
(* range of i64; otherwise the call panics and buffers nothing.            *)
(***************************************************************************)
C24_LiteralInRangeOrPanic ==
    LET text == SkipBlanks(pre.contents)
        negative == text[1] = "-"
        run == TakeWhile(IF negative THEN Tail(text) ELSE text, Digits)
        rest == Drop(text, Len(run) + (IF negative THEN 1 ELSE 0))
    IN  (Scanned /\ ScannedChar \in Digits \cup {"-"} /\ run # <<>>)
        => IF InI64(negative, run)
           THEN Lexed(Signed(IF negative THEN 0 - DecimalValue(run)
                             ELSE DecimalValue(run)), rest)
           ELSE /\ res = Panic
                /\ status = "panicked"
                /\ lexer.state = pre.state

\* The literal 2^63 has made the advance panic.
C24_Witness ==
    /\ Scanned
    /\ pre.contents = TwoTo63
    /\ res = Panic
    /\ status = "panicked"

(***************************************************************************)
(* Vocabulary of the properties on expressions and predicates.             *)
(***************************************************************************)
\* The expression, or an expression inside it, is of one of the variants.
RECURSIVE HasVariant(_, _)
HasVariant(expr, variants) ==
    \/ expr.node \in variants
    \/ CASE expr.node = "Callsite" ->
              \/ HasVariant(expr.function, variants)
              \/ \E i \in 1..Len(expr.arguments) :
                     HasVariant(expr.arguments[i], variants)
         [] expr.node = "Let" ->
              \/ HasVariant(expr.value, variants)
              \/ HasVariant(expr.body, variants)
         [] OTHER -> FALSE

\* The expressions the last call returned.
Returned ==
    CASE res.tag # "Ok" -> <<>>
      [] op.name = "parse_callsite" -> <<res.value>>
      [] op.name = "parse_callsite_term" /\ res.value # None ->
           <<res.value.value>>
      [] op.name = "parse_decl" /\ res.value # None ->
           <<res.value.value.body>>
      [] op.name = "parse_many" /\ op.arg = "parse_callsite_term" -> res.value
      [] op.name = "parse_many" /\ op.arg = "parse_decl" ->
           [i \in 1..Len(res.value) |-> res.value[i].body]
      [] OTHER -> <<>>

MatchWord == Identifier(<<"m", "a", "t", "c", "h">>)

(***************************************************************************)
(* C25: no expression parse_callsite, parse_callsite_term, parse_decl or   *)
(* a parse_many of them returns holds a Match or a TupleCtor, and a        *)
(* call-site term that begins with the word match returns no expression:   *)
(* Ok(None), or an error.                                                  *)
(***************************************************************************)
C25_NoMatchNoTupleCtor ==
    /\ \A i \in 1..Len(Returned) :
          ~HasVariant(Returned[i], {"Match", "TupleCtor"})
    /\ (Parsed("parse_callsite_term") /\ PreLexeme = MatchWord)
          => res = Ok(None) \/ res.tag = "Err"

\* The term "match f ; 1 => x" has been read up to x, and has returned None.
C25_Witness ==
    /\ Parsed("parse_callsite_term")
    /\ PreLexeme = MatchWord
    /\ res = Ok(None)
    /\ build = "new_lexer"
    /\ Holds(lexer, Identifier(<<"x">>))
    /\ lexer.contents = <<" ">>

Capitals ==
    {"A", "B", "C", "D", "E", "F", "G", "H", "I", "J", "K", "L", "M", "N",
     "O", "P", "Q", "R", "S", "T", "U", "V", "W", "X", "Y", "Z", "É",
     "U+2167", "U+1D400"}

\* lx has a token buffered that a predicate can start with.
StartsPredicate(lx) ==
    /\ lx.state.tag = "Read"
    /\ lx.state.token.lexeme.kind
          \in {"Signed", "QuotedString", "Identifier", "LParen"}

(***************************************************************************)
(* C26: parse_predicate on an identifier that starts with a capital        *)
(* returns the Ctor of that identifier and of every predicate read after   *)
(* it, in order, up to the first token no predicate starts with, where it  *)
(* leaves the lexer, or the first error met on the way; on any other       *)
(* identifier it returns an Irrefutable of that name and consumes that one *)
(* token.                                                                  *)
(***************************************************************************)
C26_IdentifierPredicate ==
    (Parsed("parse_predicate") /\ PreLexeme.kind = "Identifier")
    => LET name == PreLexeme.text
           a == advance(pre)
           t == Attempts("parse_predicate", a.lx)
       IN  IF Failed(a) THEN res = a.res
           ELSE IF name[1] \notin Capitals
           THEN /\ res.tag = "Ok"
                /\ res.value.tag = "Some"
                /\ res.value.value.node = "Irrefutable"
                /\ res.value.value.id.name = name
                /\ lexer = a.lx
           ELSE IF Failed(t.last) THEN res = t.last.res
           ELSE /\ res = Ok(Some(Ctor(Identifier_new(
                                          name, pre.state.token.location),
                                      t.items)))
                /\ lexer = t.before
                /\ ~StartsPredicate(lexer)

\* "A A x =" has been parsed to the Ctor A of the Ctor A of x.
C26_Witness ==
    /\ Parsed("parse_predicate")
    /\ PreLexeme = Identifier(<<"A">>)
    /\ res.tag = "Ok"
    /\ res.value.value.node = "Ctor"
    /\ Len(res.value.value.dims) = 1
    /\ res.value.value.dims[1].node = "Ctor"
    /\ Len(res.value.value.dims[1].dims) = 1
    /\ res.value.value.dims[1].dims[1].node = "Irrefutable"
    /\ Holds(lexer, Operator(<<"=">>))

(***************************************************************************)
(* C27: every call of advance terminates: whatever the input still holds,  *)
(* the scan loop reaches a return, so no call is left running and no       *)
(* driver hangs in it.                                                     *)
(***************************************************************************)
C27_AdvanceTerminates ==
    /\ status # "hung"
    /\ op.name = "advance_mut" => res.tag # "Unterminated"

(***************************************************************************)
(* Vocabulary of the properties on the progress of the lexer.              *)
(***************************************************************************)
IsSuffix(s, t) ==
    /\ Len(s) <= Len(t)
    /\ s = SubSeq(t, Len(t) - Len(s) + 1, Len(t))

\* The last call returned with a token it has just buffered.
BufferedNow ==
    /\ res.tag = "Ok"
    /\ lexer.state.tag = "Read"
    /\ lexer # pre
    /\ \/ op.name \in {"advance_mut", "chomp"}
       \/ pre.state = Started

(***************************************************************************)
(* C28: the lookahead buffer moves only forward: it is Started before the  *)
(* first call, no call brings it back to Started, a call made at EOF       *)
(* leaves it at EOF, every call that buffers a token strictly shortens the *)
(* remaining input, and the remaining input is always a suffix of the      *)
(* original input.                                                         *)
(***************************************************************************)
C28_BufferMovesForward ==
    /\ op.name = "new" => lexer.state = Started
    /\ pre.state # Started => lexer.state # Started
    /\ pre.state = EOF => lexer.state = EOF
    /\ BufferedNow => Len(lexer.contents) < Len(pre.contents)
    /\ IsSuffix(lexer.contents, input)
    /\ IsSuffix(lexer.contents, pre.contents)

\* An advance has been made at EOF, after two tokens, and has buffered nothing.
C28_Witness ==
    /\ op.name = "advance_mut"
    /\ pre.state = EOF
    /\ lexer.state = EOF
    /\ res.tag = "Ok"
    /\ Len(tokens) = 2
    /\ Len(lexer.contents) < Len(input)

(***************************************************************************)
(* Vocabulary of the properties on the nesting stack.                      *)
(***************************************************************************)
OpeningLexemes == {LParen, LSquare, LCurly}
ClosingLexemes == {RParen, RSquare, RCurly}

BracketOf(lexeme) ==
    CASE lexeme \in {LParen, RParen} -> "Paren"
      [] lexeme \in {LSquare, RSquare} -> "Square"
      [] lexeme \in {LCurly, RCurly} -> "Curly"

\* The opening-bracket tokens of toks no later token of toks has closed,
\* innermost first, on top of stack.
RECURSIVE Unclosed(_, _)
Unclosed(toks, stack) ==
    IF toks = <<>> THEN stack
    ELSE IF toks[1].lexeme \in OpeningLexemes
    THEN Unclosed(Tail(toks),
                  <<Nesting(toks[1].location, BracketOf(toks[1].lexeme))>>
                      \o stack)
    ELSE IF toks[1].lexeme \in ClosingLexemes
    THEN IF stack = <<>> THEN <<"underflow">>
         ELSE Unclosed(Tail(toks), Tail(stack))
    ELSE Unclosed(Tail(toks), stack)

CountOf(toks, lexemes) ==
    Cardinality({i \in 1..Len(toks) : toks[i].lexeme \in lexemes})

(***************************************************************************)
(* C29: while every call has returned, the nesting stack is the list of    *)
(* the opening-bracket tokens emitted so far that are not closed yet,      *)
(* innermost on top, each frame with the kind and the token location of    *)
(* its opener; its depth is the number of openers emitted minus the number *)
(* of closers emitted, and that is never negative.                         *)
(***************************************************************************)
C29_NestingIsUnclosedOpeners ==
    status = "running"
    => /\ lexer.nesting = Unclosed(tokens, <<>>)
       /\ CountOf(tokens, OpeningLexemes) >= CountOf(tokens, ClosingLexemes)
       /\ Len(lexer.nesting)
             = CountOf(tokens, OpeningLexemes)
                 - CountOf(tokens, ClosingLexemes)

\* Of ( [ ] [ the stack holds the second square bracket on top of the
\* parenthesis.
C29_Witness ==
    /\ status = "running"
    /\ errors = 0
    /\ op.name = "advance_mut"
    /\ Len(tokens) = 4
    /\ tokens[3].lexeme = RSquare
    /\ Len(lexer.nesting) = 2
    /\ lexer.nesting[1] = Nesting(tokens[4].location, "Square")
    /\ lexer.nesting[2] = Nesting(tokens[1].location, "Paren")
    /\ tokens[4].location # tokens[2].location

(***************************************************************************)
(* C30: an advance that returns an error leaves the lexer exactly as it    *)
(* was before the call (remaining input, current location, nesting stack   *)
(* and buffered token), so that the same call made again returns the same  *)
(* error at the same location.                                             *)
(***************************************************************************)
C30_FailedAdvanceChangesNothing ==
    (op.name = "advance_mut" /\ res.tag = "Err")
    => /\ lexer = pre
       /\ advance_mut(lexer).res = res

(***************************************************************************)
(* C31: a top-level parse that succeeds has consumed the whole input:      *)
(* whenever parse_many over parse_decl, started on a lexer that has its    *)
(* first token buffered, returns Ok, the lexer it returns is at EOF.       *)
(***************************************************************************)
C31_SuccessConsumesAll ==
    (/\ op = [name |-> "parse_many", arg |-> "parse_decl"]
     /\ pre.state.tag = "Read"
     /\ res.tag = "Ok")
    => lexer.state = EOF

(***************************************************************************)
(* Vocabulary of the property on floating-point literals.                  *)
(***************************************************************************)
LexemeKinds ==
    {"Signed", "Identifier", "QuotedString", "Operator", "Semicolon",
     "LParen", "RParen", "LSquare", "RSquare", "LCurly", "RCurly", "Comma"}

(***************************************************************************)
(* C32: the lexer never buffers a Float lexeme: the token buffered and     *)
(* every token emitted is a Signed, an Identifier, a QuotedString, an      *)
(* Operator or a punctuation mark, 1.5 being read as Signed, Operator,     *)
(* Signed; and no expression the parser returns holds a LiteralFloat.      *)
(***************************************************************************)
C32_NoFloat ==
    /\ lexer.state.tag = "Read"
          => lexer.state.token.lexeme.kind \in LexemeKinds
    /\ \A i \in 1..Len(tokens) : tokens[i].lexeme.kind \in LexemeKinds
    /\ \A i \in 1..Len(Returned) : ~HasVariant(Returned[i], {"LiteralFloat"})
    /\ (Parsed("parse_callsite") /\ PreLexeme = Signed(1) /\ res.tag = "Ok"
        /\ pre.contents = <<".", "5", " ">>)
          => res.value.arguments[1].node = "Symbol"

\* The body 1.5 of "f = 1.5" has been parsed to the call of 1 on the
\* operator . and on 5.
C32_Witness ==
    /\ Parsed("parse_callsite")
    /\ PreLexeme = Signed(1)
    /\ pre.contents = <<".", "5", " ">>
    /\ res.tag = "Ok"
    /\ res.value.node = "Callsite"
    /\ res.value.function.node = "LiteralInteger"
    /\ Len(res.value.arguments) = 2
    /\ res.value.arguments[1].id.name = <<".">>
    /\ res.value.arguments[2].node = "LiteralInteger"
    /\ res.value.arguments[2].value = 5
    /\ lexer.state = EOF
====
